---- MODULE Spec2Model ----
(***************************************************************************)
(* Verification model of the aisim2nerfstudio scripts.                     *)
(*                                                                         *)
(*  - calculation_for_transformsfile.py : pose export (Spec)               *)
(*  - combine_transforms.py             : manifest concatenation           *)
(*                                        (SpecCombine)                    *)
(*  - las2ply_world_coords.py /                                            *)
(*    colorize_lidar.py /                                                  *)
(*    lidar_pointcloud_to_                                                 *)
(*    initialization_colors.py          : point transformer (SpecPoint)    *)
(*  - colorize_lidar.py                 : projector (SpecColor,            *)
(*                                        SpecColorFair)                   *)
(*  - las2ply_world_coords.py           : LiDAR alignment (SpecLas,        *)
(*                                        SpecLasFair)                     *)
(*                                                                         *)
(* Numbers are integers; a float NaN is the distinguished value NaN, and   *)
(* NAdd / NMul propagate it as IEEE arithmetic does.  Angles are multiples *)
(* of 90 degrees (where sin and cos are exactly -1, 0 or 1), or NaN, or    *)
(* infinite.  Python's None is the record [none |-> TRUE]; an unassigned   *)
(* matrix local is the empty tuple.  A raised exception is a result whose  *)
(* err field is not "none".                                                *)
(***************************************************************************)
EXTENDS Integers, Sequences, FiniteSets, TLC

VARIABLES
    \* ---- calculation_for_transformsfile.py, main() ----
    calib,             \* the calibration document of CAMERA_CALIBRATION_FILE
    vehicle_sensor_files, \* the globbed ego-motion record files, in glob order
    pc,                \* "start" | "loop" | "done" | "error"
    err,               \* the uncaught exception that ended main, or "none"
    idx,               \* number of loop iterations started
    frames,            \* the frames list of main
    intrinsic_params,  \* result of get_intrinsic_params
    T_sensor_pom,      \* locals of the last calculate_ns_transform_matrix call
    T_ego_pom,
    T_w2c,
    T_converted,
    transforms_file,   \* the manifest written by json.dump
    \* ---- combine_transforms.py, module body ----
    FRAME_STEP,        \* configured stride K
    input_files,       \* the four listed manifests
    cpc,               \* "merge" | "assign" | "reindex" | "saved"
    cindex,            \* number of input files visited
    master_data,
    combined_frames,
    output_file,
    \* ---- apply_matrix_transform / colorize_lidar projection ----
    ppc,               \* "input" | "applied" | "restored" | "projected" | "ego"
    points,            \* the point batch
    ndim,              \* number of array dimensions of the point batch
    matrix,            \* the 4x4 transform
    transformed,       \* the result of the last operation
    \* ---- colorize_lidar.py, main() ----
    kpc,               \* "load" | "project" | "sample" | "saved" | "error"
    COLOR_FRAME_STEP,  \* configured stride FRAME_STEP of colorize_lidar
    meta,              \* the manifest: intrinsics and frames
    pcd_points,        \* the points of the cloud, N x 3
    colors,            \* one color per point
    fi,                \* the loop variable i
    img_w,             \* shape of the image read for frame i
    img_h,
    xyz,               \* camera-space coordinates of the points in frame i
    final_mask,        \* per point: passes the depth and the bounds filter
    u_idx,             \* pixel column per point (0 where the mask is FALSE)
    v_idx,             \* pixel row per point (0 where the mask is FALSE)
    frame_state,       \* per frame: how far its processing has come
    visited,           \* the values i has taken, in order
    colors_before,     \* colors when the current iteration began
    output_cloud,      \* the cloud written by write_point_cloud
    \* ---- las2ply_world_coords.py, main() ----
    lpc,               \* "start" | "loop" | "saved" | "error"
    las_files,         \* the sorted LiDAR files of get_lidar_files
    las_frames,        \* the sorted frames of load_transforms
    li,                \* the loop variable i
    all_world_points,  \* the list of per-file world point arrays
    merged_points,     \* np.vstack(points_list) in save_point_cloud
    ply_written,       \* whether write_point_cloud was called
    transforms_json,   \* the manifest file las2ply_world_coords reads
    \* ---- select_subset_images.py, process_dataset() ----
    spc,               \* "start" | "select" | "copy" | "done"
    input_dir,         \* args.input_dir: whether it exists, os.listdir of it
    nth,               \* args.nth
    max_images,        \* args.max_images (None when not given)
    dry_run,           \* args.dry_run
    all_files,         \* the sorted .jpg names
    grouped,           \* frames of group_files_by_frame
    valid_frames,      \* result of filter_complete_frames
    sorted_frame_ids,  \* sorted(valid_frames.keys())
    selected_frame_ids,  \* the ids after the nth and max_images slices
    files_to_copy,     \* the list the copy loop runs over
    ci,                \* the loop variable i of the copy loop
    output_dir,        \* the names copied into args.output_dir
    \* ---- prepare_mask.py, generate_sequence() ----
    mpc,               \* "loop" | "done" | "raised"
    num_frames,        \* the argument count
    min_pad,           \* the argument min_pad
    failing_copies,    \* the indices at which shutil.copy2 raises OSError
    mi,                \* the loop variable i
    created,           \* the files created in destination_dir, in order
    mask_err           \* the exception that left generate_sequence

vars == << calib, vehicle_sensor_files, pc, err, idx, frames, intrinsic_params,
           T_sensor_pom, T_ego_pom, T_w2c, T_converted, transforms_file,
           FRAME_STEP, input_files, cpc, cindex, master_data, combined_frames,
           output_file, ppc, points, ndim, matrix, transformed,
           kpc, COLOR_FRAME_STEP, meta, pcd_points, colors, fi, img_w, img_h,
           xyz, final_mask, u_idx, v_idx, frame_state, visited, colors_before,
           output_cloud, lpc, las_files, las_frames, li, all_world_points,
           merged_points, ply_written, transforms_json,
           spc, input_dir, nth, max_images, dry_run, all_files, grouped,
           valid_frames, sorted_frame_ids, selected_frame_ids, files_to_copy,
           ci, output_dir,
           mpc, num_frames, min_pad, failing_copies, mi, created, mask_err >>

exportVars == << calib, vehicle_sensor_files, pc, err, idx, frames,
                 intrinsic_params, T_sensor_pom, T_ego_pom, T_w2c, T_converted,
                 transforms_file >>

combineVars == << FRAME_STEP, input_files, cpc, cindex, master_data,
                  combined_frames, output_file >>

pointVars == << ppc, points, ndim, matrix, transformed >>

colorVars == << kpc, COLOR_FRAME_STEP, meta, pcd_points, colors, fi, img_w,
                img_h, xyz, final_mask, u_idx, v_idx, frame_state, visited,
                colors_before, output_cloud >>

lasVars == << lpc, las_files, las_frames, li, all_world_points, merged_points,
              ply_written, transforms_json >>

selectVars == << spc, input_dir, nth, max_images, dry_run, all_files, grouped,
                 valid_frames, sorted_frame_ids, selected_frame_ids,
                 files_to_copy, ci, output_dir >>

maskVars == << mpc, num_frames, min_pad, failing_copies, mi, created,
               mask_err >>

(***************************************************************************)
(* Bounds of the model                                                     *)
(***************************************************************************)
MaxFiles == 2          \* ego-motion record files per export run
MaxFrames == 3         \* frames per input manifest of combine_transforms
MaxPoints == 2         \* points per batch
MaxSampled == 2        \* frames that colorize_lidar samples in one run
MaxLas == 3            \* LiDAR files, and manifest frames, of one las2ply run

(***************************************************************************)
(* Values and results                                                      *)
(***************************************************************************)
NaN == -1000000

None == [none |-> TRUE]

Ok(v) == [err |-> "none", val |-> v]

Raise(e) == [err |-> e, val |-> <<>>]

NAdd(a, b) == IF a = NaN \/ b = NaN THEN NaN ELSE a + b

NMul(a, b) == IF a = NaN \/ b = NaN THEN NaN ELSE a * b

RECURSIVE DotFrom(_, _, _, _, _)
DotFrom(A, B, r, c, k) ==
    IF k = 0 THEN 0
    ELSE NAdd(DotFrom(A, B, r, c, k - 1), NMul(A[r][k], B[k][c]))

\* numpy's A @ B for 2-D operands of matching inner dimension
MatMul(A, B) ==
    [r \in 1..Len(A) |-> [c \in 1..Len(B[1]) |-> DotFrom(A, B, r, c, Len(B))]]

\* numpy's A.T
Transpose(A) ==
    IF Len(A) = 0 THEN <<>>
    ELSE [c \in 1..Len(A[1]) |-> [r \in 1..Len(A) |-> A[r][c]]]

\* np.identity(4)
Identity4 == [r \in 1..4 |-> [c \in 1..4 |-> IF r = c THEN 1 ELSE 0]]

(***************************************************************************)
(* calculation_for_transformsfile.py                                       *)
(***************************************************************************)
CAMERA_TYPE == "pinhole"

Fin(d) == [kind |-> "fin", deg |-> d]

\* math.radians on a multiple of 90 degrees: the angle in quarter turns (pi/2)
radians(a) == [kind |-> a.kind, q |-> a.deg \div 90]

\* math.sin / math.cos of a finite or NaN angle (an infinite one raises)
sin(x) ==
    IF x.kind = "nan" THEN NaN
    ELSE CASE x.q % 4 = 0 -> 0
           [] x.q % 4 = 1 -> 1
           [] x.q % 4 = 2 -> 0
           [] x.q % 4 = 3 -> -1

cos(x) ==
    IF x.kind = "nan" THEN NaN
    ELSE CASE x.q % 4 = 0 -> 1
           [] x.q % 4 = 1 -> 0
           [] x.q % 4 = 2 -> -1
           [] x.q % 4 = 3 -> 0

NNeg(a) == NMul(-1, a)

Rz(yaw_rad) ==
    << << cos(yaw_rad), NNeg(sin(yaw_rad)), 0 >>,
       << sin(yaw_rad), cos(yaw_rad), 0 >>,
       << 0, 0, 1 >> >>

Ry(pitch_rad) ==
    << << cos(pitch_rad), 0, sin(pitch_rad) >>,
       << 0, 1, 0 >>,
       << NNeg(sin(pitch_rad)), 0, cos(pitch_rad) >> >>

Rx(roll_rad) ==
    << << 1, 0, 0 >>,
       << 0, cos(roll_rad), NNeg(sin(roll_rad)) >>,
       << 0, sin(roll_rad), cos(roll_rad) >> >>

\* R = Rx @ Ry @ Rz : the composition in the wrong order
RotationXYZ(yaw_rad, pitch_rad, roll_rad) ==
    MatMul(MatMul(Rx(roll_rad), Ry(pitch_rad)), Rz(yaw_rad))

\* R = Rz @ Ry @ Rx
Rotation(yaw_rad, pitch_rad, roll_rad) ==
    MatMul(MatMul(Rz(yaw_rad), Ry(pitch_rad)), Rx(roll_rad))

euler_zyx_to_matrix(yaw_rad, pitch_rad, roll_rad) ==
    IF "inf" \in {yaw_rad.kind, pitch_rad.kind, roll_rad.kind}
    THEN Raise("ValueError: math domain error")
    ELSE LET R == Rotation(yaw_rad, pitch_rad, roll_rad)
         IN  Ok([r \in 1..4 |-> [c \in 1..4 |->
                    IF r <= 3 /\ c <= 3 THEN R[r][c] ELSE Identity4[r][c]]])

\* pom[:3, 3] = position : numpy assigns a length-3 value element-wise,
\* broadcasts a length-1 value, and raises for any other length
AssignLastColumn(pom, position) ==
    IF Len(position) = 3
    THEN Ok([r \in 1..4 |-> [c \in 1..4 |->
                IF r <= 3 /\ c = 4 THEN position[r] ELSE pom[r][c]]])
    ELSE IF Len(position) = 1
    THEN Ok([r \in 1..4 |-> [c \in 1..4 |->
                IF r <= 3 /\ c = 4 THEN position[1] ELSE pom[r][c]]])
    ELSE Raise("ValueError: could not broadcast")

calculate_pom_deg(position, yaw_deg, pitch_deg, roll_deg) ==
    LET pom == euler_zyx_to_matrix(radians(yaw_deg), radians(pitch_deg),
                                   radians(roll_deg))
    IN  IF pom.err # "none" THEN pom
        ELSE AssignLastColumn(pom.val, position)

\* a reshape that pads a short array with zeros and drops the excess of a
\* long one (np.resize-like), in column-major order
reshape_padding(rt_transform_array) ==
    Ok([r \in 1..4 |-> [c \in 1..4 |->
            IF 4 * (c - 1) + r <= Len(rt_transform_array)
            THEN rt_transform_array[4 * (c - 1) + r] ELSE 0]])

\* reshape((4, 4)) in C (row-major) order
reshape_row_major(rt_transform_array) ==
    IF Len(rt_transform_array) = 16
    THEN Ok([r \in 1..4 |-> [c \in 1..4 |->
                rt_transform_array[4 * (r - 1) + c]]])
    ELSE Raise("ValueError: cannot reshape")

\* np.array(a).reshape((4, 4), order='F') : the first index changes fastest
reshape_rt_transform(rt_transform_array) ==
    IF Len(rt_transform_array) = 16
    THEN Ok([r \in 1..4 |-> [c \in 1..4 |->
                rt_transform_array[4 * (c - 1) + r]]])
    ELSE Raise("ValueError: cannot reshape")

\* the matrix of the abandoned create_nerfstudio_conversion_matrix ("test 5")
T_permutation_test5 ==
    << << 0, -1, 0 >>,
       << 0, 0, 1 >>,
       << -1, 0, 0 >> >>

T_permutation ==
    << << 0, 0, -1 >>,
       << -1, 0, 0 >>,
       << 0, 1, 0 >> >>

Block3(T) == [r \in 1..3 |-> [c \in 1..3 |-> T[r][c]]]

\* the conversion started from a copy of T_matrix instead of np.zeros((4, 4))
nerfstudio_conversion_on_copy(T_matrix) ==
    LET T_rotation_converted == MatMul(Block3(T_matrix), T_permutation)
    IN  [r \in 1..4 |-> [c \in 1..4 |->
            IF r <= 3 /\ c <= 3 THEN T_rotation_converted[r][c]
            ELSE IF r = 4 /\ c = 4 THEN 1
            ELSE T_matrix[r][c]]]

nerfstudio_conversion(T_matrix) ==
    LET T_rotation_converted == MatMul(Block3(T_matrix), T_permutation)
        position_vec == << T_matrix[1][4], T_matrix[2][4], T_matrix[3][4] >>
    IN  [r \in 1..4 |-> [c \in 1..4 |->
            IF r <= 3 /\ c <= 3 THEN T_rotation_converted[r][c]
            ELSE IF r <= 3 /\ c = 4 THEN position_vec[r]
            ELSE IF r = 4 /\ c = 4 THEN 1
            ELSE 0]]

\* Keys whose absence get_intrinsic_params catches (and returns None for)
IntrinsicCaughtKeys ==
    {"sensors", "camera_type", "camera_config", "distortion_parameters",
     "distortion_coefficients"}

\* Keys get_intrinsic_params reads outside its try block
IntrinsicUncaughtKeys ==
    {"model", "width", "height", "focal_length", "principal_point"}

\* the guard one too strict: the last coefficient of the list is dropped
coeff_last_dropped(dist_coeffs, i) ==
    IF Len(dist_coeffs) > i + 1 THEN dist_coeffs[i + 1] ELSE 0

\* dist_coeffs[i] if len(dist_coeffs) > i else 0.0
Coeff(dist_coeffs, i) == IF Len(dist_coeffs) > i THEN dist_coeffs[i + 1] ELSE 0

get_intrinsic_params(c) ==
    IF c.missing \in IntrinsicCaughtKeys THEN Ok(None)
    ELSE IF c.missing \in IntrinsicUncaughtKeys THEN Raise("KeyError")
    ELSE Ok([none |-> FALSE,
             camera_model |-> IF c.model = "OpenCVPinhole" THEN "OPENCV"
                              ELSE "Undefined",
             w |-> c.width, h |-> c.height,
             fl_x |-> c.focal_length[1], fl_y |-> c.focal_length[2],
             cx |-> c.principal_point[1], cy |-> c.principal_point[2],
             k1 |-> Coeff(c.dist_coeffs, 0), k2 |-> Coeff(c.dist_coeffs, 1),
             k3 |-> Coeff(c.dist_coeffs, 4),
             p1 |-> Coeff(c.dist_coeffs, 2), p2 |-> Coeff(c.dist_coeffs, 3)])

\* Keys whose absence get_sensor_position_rotation catches
SensorCaughtKeys ==
    {"sensors", "camera_type", "camera_config", "position", "rotation"}

get_sensor_position_rotation(c) ==
    IF c.missing \in SensorCaughtKeys THEN None
    ELSE [none |-> FALSE, position |-> c.position, rotation |-> c.rotation]

\* T_sensor_pom @ T_ego_pom : the product with its factors swapped
compose_swapped(T_ego, T_sensor) == MatMul(T_sensor, T_ego)

\* T_w2c = T_ego_pom @ T_sensor_pom
compose(T_ego, T_sensor) == MatMul(T_ego, T_sensor)

\* The locals of one call, in the order the code assigns them; a local the
\* call never reached stays the empty tuple.
calculate_ns_transform_matrix(c, rt_transform_arr) ==
    LET sp == get_sensor_position_rotation(c)
        unset == [err |-> "none", sensor |-> <<>>, ego |-> <<>>,
                  w2c |-> <<>>, converted |-> <<>>]
    IN  IF sp.none
        THEN [unset EXCEPT !.err = "TypeError: cannot unpack None"]
        ELSE
        LET sensor == calculate_pom_deg(sp.position, sp.rotation.yaw,
                                        sp.rotation.pitch, sp.rotation.roll)
        IN  IF sensor.err # "none" THEN [unset EXCEPT !.err = sensor.err]
            ELSE
            LET ego == reshape_rt_transform(rt_transform_arr)
            IN  IF ego.err # "none"
                THEN [unset EXCEPT !.err = ego.err, !.sensor = sensor.val]
                ELSE
                LET w2c == compose(ego.val, sensor.val)
                IN  [err |-> "none", sensor |-> sensor.val, ego |-> ego.val,
                     w2c |-> w2c, converted |-> nerfstudio_conversion(w2c)]

Digits == {"0", "1", "2"}

DigitVal(ch) == CASE ch = "0" -> 0 [] ch = "1" -> 1 [] ch = "2" -> 2

RECURSIVE DecVal(_)
DecVal(s) ==
    IF Len(s) = 0 THEN 0
    ELSE 10 * DecVal(SubSeq(s, 1, Len(s) - 1)) + DigitVal(s[Len(s)])

\* int(id_str) over strings of the characters used here
int(s) ==
    IF Len(s) > 0 /\ \A i \in 1..Len(s) : s[i] \in Digits
    THEN Ok(DecVal(s))
    ELSE Raise("ValueError: invalid literal for int()")

NA == << "N", "/", "A" >>

\* stem.startswith("vehicle_sensor_") ? stem.replace(prefix, "") : "N/A"
id_str_of(file) ==
    IF file.prefix = "vehicle_sensor_" THEN file.rest ELSE NA

applied_transform ==
    << << 1, 0, 0, 0 >>, << 0, 0, 1, 0 >>, << 0, -1, 0, 0 >> >>

\* frames.append(frame) put at the front instead
prepend_frame(fs, frame) == << frame >> \o fs

\* frames.append(frame)
append_frame(fs, frame) == Append(fs, frame)

make_frame(id_str, T_matrix, colmap_im_id) ==
    [file_path |-> << "images", CAMERA_TYPE, id_str >>,
     mask_path |-> << "masks", "mask", CAMERA_TYPE, id_str >>,
     transform_matrix |-> T_matrix,
     colmap_im_id |-> colmap_im_id]

(***************************************************************************)
(* Inputs of the pose export                                               *)
(***************************************************************************)
\* flat column-major poses: identity rotation, translation (10, 20, 30)
RigidA == << 1, 0, 0, 0,  0, 1, 0, 0,  0, 0, 1, 0,  10, 20, 30, 1 >>

\* quarter turn about Z, translation (4, 5, 6)
RigidB == << 0, 1, 0, 0,  -1, 0, 0, 0,  0, 0, 1, 0,  4, 5, 6, 1 >>

\* sixteen distinct numbers; not a homogeneous pose
Distinct16 == [i \in 1..16 |-> i]

Short15 == [i \in 1..15 |-> i]

Long17 == [i \in 1..17 |-> i]

File(prefix, rest, rt) == [prefix |-> prefix, rest |-> rest, rt |-> rt]

\* Files that the pattern vehicle_sensor*.json matches
SensorFiles ==
    { File("vehicle_sensor_", << "0", "0" >>, RigidA),
      File("vehicle_sensor_", << "0", "1" >>, RigidB),
      File("vehicle_sensor_", << "1", "2" >>, Distinct16),
      File("vehicle_sensor_", << "0", "2" >>, Short15),
      File("vehicle_sensor_", << "2", "0" >>, Long17),
      File("vehicle_sensor", << "0", "1" >>, RigidA),
      File("vehicle_sensor_", << "a" >>, RigidB) }

\* Sequences of distinct files of length at most n
FileSeqs(n) ==
    UNION { { s \in [1..k -> SensorFiles] :
                \A i, j \in 1..k : i # j => s[i] # s[j] } : k \in 0..n }

AngleDegs == {0, 90, 180, -90}

NanAngle == [kind |-> "nan", deg |-> 0]

InfAngle == [kind |-> "inf", deg |-> 0]

Calib(missing, position, yaw, pitch, roll) ==
    [missing |-> missing, position |-> position,
     rotation |-> [yaw |-> yaw, pitch |-> pitch, roll |-> roll],
     model |-> "OpenCVPinhole", width |-> 100, height |-> 80,
     focal_length |-> << 500, 501 >>, principal_point |-> << 50, 40 >>,
     dist_coeffs |-> << 11, 12, 13 >>]

Calibs ==
    { Calib("none", << 7, 8, 9 >>, Fin(y), Fin(p), Fin(r)) :
        y \in AngleDegs, p \in AngleDegs, r \in AngleDegs }
    \cup { Calib("none", pos, Fin(90), Fin(0), Fin(-90)) :
             pos \in { << >>, << 5 >>, << 5, 6 >>, << 5, 6, 7, 8 >>,
                       << 0, 0, 0 >> } }
    \cup { Calib("none", << 7, 8, 9 >>, NanAngle, Fin(0), Fin(0)),
           Calib("none", << 7, 8, 9 >>, Fin(0), InfAngle, Fin(90)),
           Calib("none", << 7, 8, 9 >>, Fin(90), Fin(0), NanAngle),
           Calib("none", << 7, 8, 9 >>, InfAngle, NanAngle, Fin(0)) }
    \cup { Calib(m, << 7, 8, 9 >>, Fin(90), Fin(0), Fin(0)) :
             m \in IntrinsicCaughtKeys \cup IntrinsicUncaughtKeys
                     \cup SensorCaughtKeys }
    \cup { [Calib("none", << 7, 8, 9 >>, Fin(0), Fin(0), Fin(0))
              EXCEPT !.dist_coeffs = SubSeq(<< 11, 12, 13, 14, 15 >>, 1, n)] :
             n \in 0..5 }
    \cup { [Calib("none", << 7, 8, 9 >>, Fin(0), Fin(0), Fin(0))
              EXCEPT !.width = 64, !.height = 48,
                     !.focal_length = << 300, 301 >>,
                     !.principal_point = << 32, 24 >>,
                     !.dist_coeffs = << 0, 21 >>] }

NoManifest == [written |-> FALSE, intrinsics |-> None, frames |-> << >>,
               applied_transform |-> << >>]

(***************************************************************************)
(* calculation_for_transformsfile.py, main()                               *)
(***************************************************************************)
IdleCalib == Calib("none", << 7, 8, 9 >>, Fin(0), Fin(0), Fin(0))

\* line 340: intrinsic_params = get_intrinsic_params(...)
LoadIntrinsics ==
    /\ pc = "start"
    /\ LET ip == get_intrinsic_params(calib)
       IN  IF ip.err # "none"
           THEN /\ pc' = "error"
                /\ err' = ip.err
                /\ UNCHANGED intrinsic_params
           ELSE /\ pc' = "loop"
                /\ intrinsic_params' = ip.val
                /\ UNCHANGED err
    /\ UNCHANGED << calib, vehicle_sensor_files, idx, frames, T_sensor_pom,
                    T_ego_pom, T_w2c, T_converted, transforms_file >>
    /\ UNCHANGED << combineVars, pointVars, colorVars, lasVars, selectVars,
                    maskVars >>

\* lines 348-362: one iteration of the loop over vehicle_sensor_files
ProcessFile ==
    /\ pc = "loop"
    /\ idx < Len(vehicle_sensor_files)
    /\ LET vehicle_sensor_file == vehicle_sensor_files[idx + 1]
           id_str == id_str_of(vehicle_sensor_file)
           call == calculate_ns_transform_matrix(calib, vehicle_sensor_file.rt)
           colmap_im_id == int(id_str)
       IN  /\ idx' = idx + 1
           /\ T_sensor_pom' = call.sensor
           /\ T_ego_pom' = call.ego
           /\ T_w2c' = call.w2c
           /\ T_converted' = call.converted
           /\ IF call.err # "none"
              THEN pc' = "error" /\ err' = call.err /\ UNCHANGED frames
              ELSE IF colmap_im_id.err # "none"
              THEN pc' = "error" /\ err' = colmap_im_id.err /\ UNCHANGED frames
              ELSE /\ frames' = append_frame(frames,
                                    make_frame(id_str, call.converted,
                                               colmap_im_id.val))
                   /\ UNCHANGED << pc, err >>
    /\ UNCHANGED << calib, vehicle_sensor_files, intrinsic_params,
                    transforms_file >>
    /\ UNCHANGED << combineVars, pointVars, colorVars, lasVars, selectVars,
                    maskVars >>

\* lines 364-389: attach the frames to the intrinsics and write the manifest
WriteManifest ==
    /\ pc = "loop"
    /\ idx = Len(vehicle_sensor_files)
    /\ IF intrinsic_params.none
       THEN /\ pc' = "error"
            /\ err' = "TypeError: NoneType does not support item assignment"
            /\ UNCHANGED transforms_file
       ELSE /\ pc' = "done"
            /\ transforms_file' = [written |-> TRUE,
                                   intrinsics |-> intrinsic_params,
                                   frames |-> frames,
                                   applied_transform |-> applied_transform]
            /\ UNCHANGED err
    /\ UNCHANGED << calib, vehicle_sensor_files, idx, frames, intrinsic_params,
                    T_sensor_pom, T_ego_pom, T_w2c, T_converted >>
    /\ UNCHANGED << combineVars, pointVars, colorVars, lasVars, selectVars,
                    maskVars >>

Next == LoadIntrinsics \/ ProcessFile \/ WriteManifest

(***************************************************************************)
(* combine_transforms.py                                                   *)
(***************************************************************************)
FRAME_STEP_DEFAULT == 20

NumInputFiles == 4

\* raw_frames[::step] : the elements at 0-based indices 0, step, 2*step, ...
Sampled(raw_frames, step) ==
    [m \in 1..((Len(raw_frames) + step - 1) \div step) |->
        raw_frames[(m - 1) * step + 1]]

\* The frames of the manifest of camera `cam` holding n frames: frame j
\* (0-based) carries the id the export gave it, the same across cameras.
ManifestFrames(cam, n) ==
    [j \in 1..n |-> [cam |-> cam, pos |-> j - 1, colmap_im_id |-> j - 1]]

\* json.load of an input file that exists
LoadManifest(cam, file) ==
    [cam |-> cam, frames |-> ManifestFrames(cam, file.n)]

EmptyDict == [cam |-> 0, frames |-> << >>]

\* combined_frames.extend(sampled_frames)
extend(combined, sampled_frames) == combined \o sampled_frames

\* the loop that leaves every id as it was
reindex_skipped(fs) == fs

\* for i, frame in enumerate(master_data['frames']): frame['colmap_im_id'] = i
reindex(fs) == [i \in 1..Len(fs) |-> [fs[i] EXCEPT !.colmap_im_id = i - 1]]

FrameSteps == {1, 2, FRAME_STEP_DEFAULT}

FrameCounts == (0..MaxFrames) \cup {FRAME_STEP_DEFAULT + 1}

InputFile == [exists : {TRUE}, n : FrameCounts]
                 \cup {[exists |-> FALSE, n |-> 0]}

NotSaved == [written |-> FALSE, cam |-> 0, frames |-> << >>]

\* lines 35-58: one iteration of the loop over input_files
MergeFile ==
    /\ cpc = "merge"
    /\ cindex < Len(input_files)
    /\ cindex' = cindex + 1
    /\ LET file == input_files[cindex + 1]
           data == LoadManifest(cindex + 1, file)
           sampled_frames == Sampled(data.frames, FRAME_STEP)
       IN  IF ~file.exists
           THEN UNCHANGED << master_data, combined_frames >>
           ELSE IF cindex = 0
           THEN /\ master_data' = data
                /\ combined_frames' = sampled_frames
           ELSE /\ combined_frames' = extend(combined_frames, sampled_frames)
                /\ UNCHANGED master_data
    /\ UNCHANGED << FRAME_STEP, input_files, cpc, output_file >>
    /\ UNCHANGED << exportVars, pointVars, colorVars, lasVars, selectVars,
                    maskVars >>

\* lines 61-70: attach the combined list, re-index it, save
ReindexAndSave ==
    /\ cpc = "merge"
    /\ cindex = Len(input_files)
    /\ cpc' = "saved"
    /\ LET reindexed == reindex(combined_frames)
       IN  /\ master_data' = [master_data EXCEPT !.frames = reindexed]
           /\ combined_frames' = reindexed
           /\ output_file' = [written |-> TRUE, cam |-> master_data.cam,
                              frames |-> reindexed]
    /\ UNCHANGED << FRAME_STEP, input_files, cindex >>
    /\ UNCHANGED << exportVars, pointVars, colorVars, lasVars, selectVars,
                    maskVars >>

NextCombine == MergeFile \/ ReindexAndSave

(***************************************************************************)
(* las2ply_world_coords.apply_matrix_transform and the world-to-camera     *)
(* product of colorize_lidar.main                                          *)
(***************************************************************************)
\* np.hstack((points, np.ones((N, 1))))
Homogeneous(pts) == [i \in 1..Len(pts) |-> Append(pts[i], 1)]

\* a[:, :3]
FirstThree(a) == [i \in 1..Len(a) |-> SubSeq(a[i], 1, 3)]

\* points_hom @ matrix : the points treated as row vectors
apply_row_vectors(pts, m) ==
    IF Len(pts) = 0 THEN Ok(<< >>)
    ELSE IF Len(pts[1]) # 3 THEN Raise("ValueError: matmul dimension mismatch")
    ELSE Ok(FirstThree(MatMul(Homogeneous(pts), m)))

\* (matrix @ points_hom.T).T[:, :3]
apply_matrix_transform(pts, m) ==
    IF Len(pts) = 0 THEN Ok(<< >>)
    ELSE IF Len(pts[1]) # 3 THEN Raise("ValueError: matmul dimension mismatch")
    ELSE Ok(FirstThree(Transpose(MatMul(m, Transpose(Homogeneous(pts))))))

\* colorize_lidar.main: points_hom, pts_cam = (w2c @ points_hom.T).T, xyz
camera_space(pts, w2c) ==
    IF Len(pts) = 0 THEN << >>
    ELSE FirstThree(Transpose(MatMul(w2c, Transpose(Homogeneous(pts)))))

\* lidar_pointcloud_to_initialization_colors.get_ego_points:
\* sensor_pom @ points, the (4, 4) pose times the batch as it is; numpy
\* accepts the product only when the batch has 4 rows (or is a (4,) vector)
get_ego_points(nd, pts, sensor_pom) ==
    IF Len(pts) # 4 THEN Raise("ValueError: matmul dimension mismatch")
    ELSE IF nd = 1 THEN Ok(Transpose(MatMul(sensor_pom, Transpose(<< pts >>)))[1])
    ELSE Ok(MatMul(sensor_pom, pts))

\* the matrix without row r and column c
Minor(M, r, c) ==
    [i \in 1..(Len(M) - 1) |->
        [j \in 1..(Len(M) - 1) |->
            M[IF i < r THEN i ELSE i + 1][IF j < c THEN j ELSE j + 1]]]

Det3(A) ==
    A[1][1] * (A[2][2] * A[3][3] - A[2][3] * A[3][2])
      - A[1][2] * (A[2][1] * A[3][3] - A[2][3] * A[3][1])
      + A[1][3] * (A[2][1] * A[3][2] - A[2][2] * A[3][1])

Sign(k) == IF k % 2 = 0 THEN 1 ELSE -1

Det4(M) ==
    M[1][1] * Det3(Minor(M, 1, 1)) - M[1][2] * Det3(Minor(M, 1, 2))
      + M[1][3] * Det3(Minor(M, 1, 3)) - M[1][4] * Det3(Minor(M, 1, 4))

\* the transpose in place of the inverse: right for a rotation, wrong as soon
\* as the pose has a translation
inv_transposed(M) == Ok(Transpose(M))

\* np.linalg.inv of a 4x4 matrix of determinant 1, -1 or 0: the adjugate
\* over the determinant (exact for these), LinAlgError when singular
linalg_inv(M) ==
    LET det == Det4(M)
    IN  IF det = 0 THEN Raise("LinAlgError: Singular matrix")
        ELSE Ok([r \in 1..4 |->
                   [c \in 1..4 |->
                       (Sign(r + c) * Det3(Minor(M, c, r))) \div det]])

rotation_fix ==
    << << 0, -1, 0, 0 >>, << 0, 0, 1, 0 >>, << 1, 0, 0, 0 >>, << 0, 0, 0, 1 >> >>

PointRows == { << 1, 2, 3 >>, << 0, 0, -5 >>, << -4, 5, 6 >> }

\* a 4 x 3 batch: as many points as the pose has columns
FourByThree ==
    << << 1, 2, 3 >>, << 0, 0, -5 >>, << -4, 5, 6 >>, << 7, -8, 9 >> >>

\* N x 3 batches, and one N x 2 and one N x 4 batch
Batches ==
    UNION { [1..n -> PointRows] : n \in 0..MaxPoints }
    \cup { << << 1, 2 >> >>, << << 1, 2, 3, 4 >>, << 5, 6, 7, 8 >> >> }
    \cup { FourByThree }

\* 1-D arrays of shape (3,)
FlatVectors == { << 1, 2, 3 >> }

IsNx3(pts) == \A i \in 1..Len(pts) : Len(pts[i]) = 3

\* a sensor pose of the builder: three quarter turns and a translation
SensorPose == calculate_pom_deg(<< 7, -8, 9 >>, Fin(90), Fin(-90), Fin(180)).val

Matrices ==
    { Identity4, rotation_fix, reshape_rt_transform(RigidA).val,
      reshape_rt_transform(RigidB).val, reshape_rt_transform(Distinct16).val,
      SensorPose, nerfstudio_conversion(SensorPose) }

\* a call of apply_matrix_transform(points, matrix); np.hstack of a 1-D
\* array with the (N, 1) column of ones raises (line 46)
ApplyMatrixTransform ==
    /\ ppc = "input"
    /\ ppc' = "applied"
    /\ transformed' =
          IF ndim = 1
          THEN Raise("ValueError: all the input arrays must have same number of dimensions")
          ELSE apply_matrix_transform(points, matrix)
    /\ UNCHANGED << points, ndim, matrix >>
    /\ UNCHANGED << exportVars, combineVars, colorVars, lasVars, selectVars,
                    maskVars >>

\* apply_matrix_transform(transformed, np.linalg.inv(matrix)): the way back
ApplyInverse ==
    /\ ppc = "applied"
    /\ transformed.err = "none"
    /\ ppc' = "restored"
    /\ transformed' =
          IF linalg_inv(matrix).err # "none" THEN Raise(linalg_inv(matrix).err)
          ELSE apply_matrix_transform(transformed.val, linalg_inv(matrix).val)
    /\ UNCHANGED << points, ndim, matrix >>
    /\ UNCHANGED << exportVars, combineVars, colorVars, lasVars, selectVars,
                    maskVars >>

\* a call of get_ego_points(points, matrix)
GetEgoPoints ==
    /\ ppc = "input"
    /\ ppc' = "ego"
    /\ transformed' = get_ego_points(ndim, points, matrix)
    /\ UNCHANGED << points, ndim, matrix >>
    /\ UNCHANGED << exportVars, combineVars, colorVars, lasVars, selectVars,
                    maskVars >>

\* colorize_lidar.main lines 57, 93-96 on the N x 3 points of the cloud
CameraSpace ==
    /\ ppc = "input"
    /\ ndim = 2
    /\ IsNx3(points)
    /\ ppc' = "projected"
    /\ transformed' = Ok(camera_space(points, matrix))
    /\ UNCHANGED << points, ndim, matrix >>
    /\ UNCHANGED << exportVars, combineVars, colorVars, lasVars, selectVars,
                    maskVars >>

NextPoint == ApplyMatrixTransform \/ ApplyInverse \/ GetEgoPoints \/ CameraSpace

(***************************************************************************)
(* colorize_lidar.py                                                       *)
(*                                                                         *)
(* Lengths (point coordinates, pose translations, depths) are counted in   *)
(* tenths of the scene unit, so that the depth threshold 0.1 is the        *)
(* integer 1; pixel quantities are plain integers.  A color channel is     *)
(* counted in 510ths, so that the initial grey 0.5 is 255 and a pixel      *)
(* value c / 255.0 is 2 * c.                                               *)
(***************************************************************************)
COLOR_FRAME_STEP_DEFAULT == 10

\* the depth threshold 0.1 of valid_z_mask, in tenths
Z_EPSILON == 1

\* np.full(points.shape, 0.5), one row
Grey == << 255, 255, 255 >>

\* no change of axes between the manifest's camera and the projection
no_axis_fix == Identity4

fix_rot ==
    << << 1, 0, 0, 0 >>, << 0, -1, 0, 0 >>, << 0, 0, -1, 0 >>, << 0, 0, 0, 1 >> >>

\* get_camera_matrix(json_data, frame_idx), frame_idx counted from 0
get_camera_matrix(json_data, frame_idx) ==
    LET c2w == json_data.frames[frame_idx + 1].transform_matrix
        w2c == linalg_inv(c2w)
    IN  IF w2c.err # "none" THEN w2c ELSE Ok(MatMul(fix_rot, w2c.val))

\* the pixel that cv2.imread gives for frame i at [row, col], in B, G, R order;
\* the images of the model hold a different color at every pixel
imread_pixel(i, row, col) == << col % 256, row % 256, i % 256 >>

\* cv2.cvtColor(img, cv2.COLOR_BGR2RGB), one pixel
cvtColor(bgr) == << bgr[3], bgr[2], bgr[1] >>

\* new_colors.astype(float) / 255.0, one pixel
normalize(rgb) == [k \in 1..3 |-> 2 * rgb[k]]

\* Z > 0.1 or anything instead of it that lets a point at depth 0.1 through
valid_z_at_threshold(Z) == Z >= Z_EPSILON

\* valid_z_mask = Z > 0.1
valid_z(Z) == Z > Z_EPSILON

\* (u >= 0) & (u < size) for u = (x * fl / Z) + c: the whole image
valid_pixel_whole_image(x, Z, fl, c, size) ==
    /\ x * fl + c * Z >= 0
    /\ x * fl + c * Z < size * Z

\* (u >= 0) & (u < size - 1) for u = (x * fl / Z) + c, where Z > 0
valid_pixel(x, Z, fl, c, size) ==
    /\ x * fl + c * Z >= 0
    /\ x * fl + c * Z < (size - 1) * Z

\* u.astype(int) for u = (x * fl / Z) + c >= 0, where Z > 0
pixel_idx(x, Z, fl, c) == (x * fl + c * Z) \div Z

\* final_mask = valid_z_mask & valid_u & valid_v, one point
passes(p, m, w, h) ==
    /\ valid_z(p[3])
    /\ valid_pixel(p[1], p[3], m.fl_x, m.cx, w)
    /\ valid_pixel(p[2], p[3], m.fl_y, m.cy, h)

\* colors[final_mask] = new_colors only where the color is still the initial
\* grey: the first frame that sees a point keeps it
update_first_writer(old, mask, new) ==
    [p \in 1..Len(old) |-> IF mask[p] /\ old[p] = Grey THEN new[p] ELSE old[p]]

\* colors = new_colors: every point is written, black where no pixel was read
update_all(old, mask, new) ==
    [p \in 1..Len(old) |-> IF mask[p] THEN new[p] ELSE << 0, 0, 0 >>]

\* colors[final_mask] = new_colors
update_colors(old, mask, new) ==
    [p \in 1..Len(old) |-> IF mask[p] THEN new[p] ELSE old[p]]

\* os.path.exists(img_path) alone: the result of cv2.imread is not looked at
image_exists(frame) == frame.image # "missing"

\* os.path.exists(img_path) and cv2.imread(img_path) is not None
image_read(frame) == frame.image = "ok"

\* the next value of range(0, len(frames), FRAME_STEP) after i
next_index(i, step) == i + step

(***************************************************************************)
(* Inputs of colorize_lidar                                                *)
(***************************************************************************)
\* camera three units down the -Z axis, turned half a turn about Y
PoseTurned ==
    << << -1, 0, 0, 0 >>, << 0, 1, 0, 0 >>, << 0, 0, -1, -30 >>, << 0, 0, 0, 1 >> >>

Frame(image, w, h, pose) ==
    [image |-> image, img_w |-> w, img_h |-> h, transform_matrix |-> pose]

\* image: "missing" (no file at the path), "unreadable" (cv2.imread gives
\* None) or "ok"
FrameKinds ==
    { Frame("missing", 0, 0, Identity4), Frame("unreadable", 0, 0, PoseTurned),
      Frame("ok", 4, 3, Identity4), Frame("ok", 100, 100, Identity4),
      Frame("ok", 4, 3, PoseTurned) }

\* a frame between two sampled ones
UnsampledFrame == Frame("ok", 100, 100, PoseTurned)

Intrinsics ==
    { [fl_x |-> 500, fl_y |-> 500, cx |-> 0, cy |-> 0],
      [fl_x |-> 4, fl_y |-> 2, cx |-> 2, cy |-> 1] }

\* frames 0, step, 2 * step, ... are those of sampled; tail more frames follow
\* the last sampled one
FrameList(sampled, step, tail) ==
    IF Len(sampled) = 0 THEN << >>
    ELSE [j \in 1..((Len(sampled) - 1) * step + 1 + tail) |->
            IF (j - 1) % step = 0 THEN sampled[(j - 1) \div step + 1]
            ELSE UnsampledFrame]

Meta(k, fs) ==
    [fl_x |-> k.fl_x, fl_y |-> k.fl_y, cx |-> k.cx, cy |-> k.cy, frames |-> fs]

EmptyMeta == [fl_x |-> 0, fl_y |-> 0, cx |-> 0, cy |-> 0, frames |-> << >>]

ColorSteps == { 1, 2, COLOR_FRAME_STEP_DEFAULT }

Metas(step) ==
    { Meta(k, FrameList(sampled, step, tail)) :
        k \in Intrinsics,
        sampled \in UNION { [1..n -> FrameKinds] : n \in 0..MaxSampled },
        tail \in (IF step = 2 THEN {0, 1} ELSE {0}) }

CloudFull ==
    << << 0, 0, -50 >>, << 2, 0, -8 >>, << 0, 0, -1 >>, << 0, 0, 0 >>,
       << 0, 0, 20 >>, << 1, -3, -8 >>, << 0, -4, -8 >>, << -5, 0, -8 >> >>

Clouds == { << >>, << << 0, 0, -50 >> >>, CloudFull }

NotWritten == [written |-> FALSE, points |-> << >>, colors |-> << >>]

(***************************************************************************)
(* colorize_lidar.main                                                     *)
(***************************************************************************)
\* lines 73-85: the next i of the range, the image of frame i
LoadImage ==
    /\ kpc = "load"
    /\ fi < Len(meta.frames)
    /\ visited' = Append(visited, fi)
    /\ colors_before' = colors
    /\ IF ~image_read(meta.frames[fi + 1])
       THEN /\ frame_state' = [frame_state EXCEPT ![fi + 1] = "SKIPPED"]
            /\ fi' = next_index(fi, COLOR_FRAME_STEP)
            /\ UNCHANGED << kpc, img_w, img_h >>
       ELSE /\ frame_state' = [frame_state EXCEPT ![fi + 1] = "LOADED"]
            /\ img_w' = meta.frames[fi + 1].img_w
            /\ img_h' = meta.frames[fi + 1].img_h
            /\ kpc' = "project"
            /\ UNCHANGED fi
    /\ UNCHANGED << COLOR_FRAME_STEP, meta, pcd_points, colors, xyz, final_mask,
                    u_idx, v_idx, output_cloud >>
    /\ UNCHANGED << exportVars, combineVars, pointVars, lasVars, selectVars,
                    maskVars >>

\* lines 89-113: camera space, depth filter, perspective divide, bounds filter
ProjectPoints ==
    /\ kpc = "project"
    /\ LET w2c == get_camera_matrix(meta, fi)
           pts_cam == camera_space(pcd_points, w2c.val)
       IN  IF w2c.err # "none"
           THEN /\ kpc' = "error"
                /\ UNCHANGED << xyz, final_mask, frame_state >>
           ELSE /\ kpc' = "sample"
                /\ xyz' = pts_cam
                /\ final_mask' = [p \in 1..Len(pcd_points) |->
                                     passes(pts_cam[p], meta, img_w, img_h)]
                /\ frame_state' = [frame_state EXCEPT ![fi + 1] = "PROJECTED"]
    /\ UNCHANGED << COLOR_FRAME_STEP, meta, pcd_points, colors, fi, img_w, img_h,
                    u_idx, v_idx, visited, colors_before, output_cloud >>
    /\ UNCHANGED << exportVars, combineVars, pointVars, lasVars, selectVars,
                    maskVars >>

\* lines 115-130: nothing to write when no point passes (continue), else the
\* pixel under every passing point becomes its color; either way the frame
\* is done
SampleColors ==
    /\ kpc = "sample"
    /\ kpc' = "load"
    /\ fi' = next_index(fi, COLOR_FRAME_STEP)
    /\ frame_state' = [frame_state EXCEPT ![fi + 1] = "COLORED"]
    /\ LET u == [p \in 1..Len(xyz) |->
                    IF final_mask[p]
                    THEN pixel_idx(xyz[p][1], xyz[p][3], meta.fl_x, meta.cx)
                    ELSE 0]
           v == [p \in 1..Len(xyz) |->
                    IF final_mask[p]
                    THEN pixel_idx(xyz[p][2], xyz[p][3], meta.fl_y, meta.cy)
                    ELSE 0]
       IN  IF \A p \in 1..Len(final_mask) : ~final_mask[p]
           THEN UNCHANGED << u_idx, v_idx, colors >>
           ELSE /\ u_idx' = u
                /\ v_idx' = v
                /\ colors' = update_colors(colors, final_mask,
                                [p \in 1..Len(xyz) |->
                                    normalize(cvtColor(
                                        imread_pixel(fi, v[p], u[p])))])
    /\ UNCHANGED << COLOR_FRAME_STEP, meta, pcd_points, img_w, img_h, xyz,
                    final_mask, visited, colors_before, output_cloud >>
    /\ UNCHANGED << exportVars, combineVars, pointVars, lasVars, selectVars,
                    maskVars >>

\* lines 135-137: the range is exhausted, the cloud is written
WriteCloud ==
    /\ kpc = "load"
    /\ fi >= Len(meta.frames)
    /\ kpc' = "saved"
    /\ output_cloud' = [written |-> TRUE, points |-> pcd_points, colors |-> colors]
    /\ UNCHANGED << COLOR_FRAME_STEP, meta, pcd_points, colors, fi, img_w, img_h,
                    xyz, final_mask, u_idx, v_idx, frame_state, visited,
                    colors_before >>
    /\ UNCHANGED << exportVars, combineVars, pointVars, lasVars, selectVars,
                    maskVars >>

NextColor == LoadImage \/ ProjectPoints \/ SampleColors \/ WriteCloud

(***************************************************************************)
(* las2ply_world_coords.py                                                 *)
(***************************************************************************)
FIX_ORIENTATION == TRUE

\* process_single_frame(las_path, transform_matrix): None for a file that
\* cannot be read, for an empty file and for any exception on the way
process_single_frame(las, transform_matrix) ==
    IF las.status = "unreadable" THEN None
    ELSE IF Len(las.local_points) = 0 THEN None
    ELSE LET local_points ==
                 IF FIX_ORIENTATION
                 THEN apply_matrix_transform(las.local_points, rotation_fix)
                 ELSE Ok(las.local_points)
             world_points ==
                 IF local_points.err # "none" THEN local_points
                 ELSE apply_matrix_transform(local_points.val, transform_matrix)
         IN  IF world_points.err # "none" THEN None
             ELSE [none |-> FALSE, points |-> world_points.val]

\* a failing file empties the list: what earlier files gave is lost
append_or_reset(list, pts) ==
    IF pts.none THEN << >> ELSE Append(list, pts.points)

\* if points is not None: all_world_points.append(points)
append_points(list, pts) ==
    IF pts.none THEN list ELSE Append(list, pts.points)

RECURSIVE vstack(_)
\* np.vstack(points_list)
vstack(list) ==
    IF Len(list) = 0 THEN << >> ELSE list[1] \o vstack(Tail(list))

LasFile(status, local_points) ==
    [status |-> status, local_points |-> local_points]

\* a file laspy cannot open, a file with point_count 0, two files with points
LasFiles ==
    { LasFile("unreadable", << >>), LasFile("ok", << >>),
      LasFile("ok", << << 1, 2, 3 >> >>),
      LasFile("ok", << << 0, 0, -5 >>, << -4, 5, 6 >> >>) }

\* the sensors a manifest may have been exported for
LasSensors == {"lidar_sensor", "pinhole"}

\* the calibration entry of each sensor
SensorCalib(cam) ==
    IF cam = "lidar_sensor" THEN IdleCalib
    ELSE Calib("none", << 7, -8, 9 >>, Fin(90), Fin(-90), Fin(180))

\* the ego-motion record of capture id: the vehicle moves along X and is
\* turned a quarter about Z at the odd captures
EgoOf(id) ==
    IF id % 2 = 0
    THEN << 1, 0, 0, 0,  0, 1, 0, 0,  0, 0, 1, 0,  10 + id, 20, 30, 1 >>
    ELSE << 0, 1, 0, 0,  -1, 0, 0, 0,  0, 0, 1, 0,  4 + id, 5, 6, 1 >>

\* the frame the pose export writes for capture id of sensor cam; the id of
\* the path is kept as a number, the zero padding gives all ids one width
ManifestFrame(cam, id) ==
    [file_path |-> << "images", cam, id >>,
     transform_matrix |->
         calculate_ns_transform_matrix(SensorCalib(cam), EgoOf(id)).converted]

\* x['file_path'] <= y['file_path'] for "images/{cam}_{id}.jpg": the sensor
\* names differ at their first letter, equal-width ids order as numbers
CameraRank(cam) == IF cam = "lidar_sensor" THEN 0 ELSE 1

path_le(a, b) ==
    \/ CameraRank(a[2]) < CameraRank(b[2])
    \/ a[2] = b[2] /\ a[3] <= b[3]

RECURSIVE sort_by_file_path(_)
\* frames.sort(key=lambda x: x['file_path'])
sort_by_file_path(fs) ==
    IF Len(fs) = 0 THEN << >>
    ELSE LET rest == sort_by_file_path(SubSeq(fs, 1, Len(fs) - 1))
             x == fs[Len(fs)]
             k == Cardinality({ j \in 1..Len(rest) :
                                  path_le(rest[j].file_path, x.file_path) })
         IN  SubSeq(rest, 1, k) \o << x >> \o SubSeq(rest, k + 1, Len(rest))

\* load_transforms(json_path)
load_transforms(json) ==
    IF ~json.exists THEN Raise("FileNotFoundError")
    ELSE Ok(sort_by_file_path(json.frames))

TransformsJson(exists, fs) == [exists |-> exists, frames |-> fs]

\* Manifests: none on disk; every capture of one sensor; every second
\* capture of one sensor; the captures of two sensors, one sensor after
\* the other as manifest concatenation leaves them
TransformsFiles ==
    { TransformsJson(FALSE, << >>) }
    \cup { TransformsJson(TRUE, [k \in 1..m |-> ManifestFrame("lidar_sensor", k - 1)]) :
              m \in 0..MaxLas }
    \cup { TransformsJson(TRUE, [k \in 1..m |->
                                    ManifestFrame("lidar_sensor", 2 * (k - 1))]) :
              m \in 2..MaxLas }
    \cup { TransformsJson(TRUE,
                [k \in 1..(2 * m) |->
                    IF k <= m THEN ManifestFrame("pinhole", k - 1)
                    ELSE ManifestFrame("lidar_sensor", k - m - 1)]) :
              m \in 1..(MaxLas - 1) }

\* count = min(len(las_files), len(frames))
count ==
    IF Len(las_files) < Len(las_frames) THEN Len(las_files) ELSE Len(las_frames)

\* lines 124-131: one iteration of the loop
\* lines 114-115: frames = load_transforms(TRANSFORMS_FILE)
LoadData ==
    /\ lpc = "start"
    /\ LET loaded == load_transforms(transforms_json)
       IN  IF loaded.err # "none"
           THEN lpc' = "error" /\ UNCHANGED las_frames
           ELSE lpc' = "loop" /\ las_frames' = loaded.val
    /\ UNCHANGED << las_files, li, all_world_points, merged_points,
                    ply_written, transforms_json >>
    /\ UNCHANGED << exportVars, combineVars, pointVars, colorVars,
                    selectVars, maskVars >>

ProcessSingleFrame ==
    /\ lpc = "loop"
    /\ li < count
    /\ li' = li + 1
    /\ all_world_points' =
          append_points(all_world_points,
              process_single_frame(las_files[li + 1],
                                   las_frames[li + 1].transform_matrix))
    /\ UNCHANGED << lpc, las_files, las_frames, merged_points, ply_written,
                    transforms_json >>
    /\ UNCHANGED << exportVars, combineVars, pointVars, colorVars,
                    selectVars, maskVars >>

\* line 139 and save_point_cloud: nothing is written for an empty list
SavePointCloud ==
    /\ lpc = "loop"
    /\ li = count
    /\ lpc' = "saved"
    /\ IF Len(all_world_points) = 0
       THEN UNCHANGED << merged_points, ply_written >>
       ELSE /\ merged_points' = vstack(all_world_points)
            /\ ply_written' = TRUE
    /\ UNCHANGED << las_files, las_frames, li, all_world_points,
                    transforms_json >>
    /\ UNCHANGED << exportVars, combineVars, pointVars, colorVars,
                    selectVars, maskVars >>

NextLas == LoadData \/ ProcessSingleFrame \/ SavePointCloud

(***************************************************************************)
(* select_subset_images.py                                                 *)
(***************************************************************************)
\* CameraRig.camera_names
camera_names ==
    << "pinhole", "pinhole_duplicate0", "pinhole_duplicate1",
       "pinhole_duplicate2" >>

is_valid_camera(name) == \E k \in 1..Len(camera_names) : camera_names[k] = name

\* the file name {cam}{sep}{frame_str}{ext}
FileName(cam, sep, frame_str, ext) ==
    [cam |-> cam, sep |-> sep, frame_str |-> frame_str, ext |-> ext]

\* filename_pattern.match(filename) for (.+)_(\d{5})\.jpg$
pattern_match(filename) ==
    /\ filename.sep = "_"
    /\ Len(filename.frame_str) = 5
    /\ \A i \in 1..Len(filename.frame_str) : filename.frame_str[i] \in Digits
    /\ filename.ext = ".jpg"

\* d[k] = v on a dict
Put(d, k, v) == [x \in (DOMAIN d) \cup {k} |-> IF x = k THEN v ELSE d[x]]

RECURSIVE group_files_by_frame(_)
\* CameraRig.group_files_by_frame(file_list)
group_files_by_frame(file_list) ==
    IF Len(file_list) = 0 THEN << >>
    ELSE LET fs == group_files_by_frame(SubSeq(file_list, 1, Len(file_list) - 1))
             filename == file_list[Len(file_list)]
         IN  IF ~pattern_match(filename) THEN fs
             ELSE IF ~is_valid_camera(filename.cam) THEN fs
             ELSE LET frame_id == int(filename.frame_str).val
                      cam_files == IF frame_id \in DOMAIN fs THEN fs[frame_id]
                                   ELSE << >>
                  IN  Put(fs, frame_id, Put(cam_files, filename.cam, filename))

\* the validation step left out: every grouped frame is kept
keep_incomplete_frames(fs) == fs

\* CameraRig.filter_complete_frames(frames)
filter_complete_frames(fs) ==
    [frame_id \in { i \in DOMAIN fs :
                      Cardinality(DOMAIN fs[i]) = Len(camera_names) } |->
        fs[frame_id]]

RECURSIVE sorted_ids(_)
\* sorted(valid_frames.keys())
sorted_ids(S) ==
    IF S = {} THEN << >>
    ELSE LET least == CHOOSE x \in S : \A y \in S : x <= y
         IN  << least >> \o sorted_ids(S \ {least})

\* ids[:max_frames]
Prefix(ids, max_frames) ==
    SubSeq(ids, 1, IF max_frames < Len(ids) THEN max_frames ELSE Len(ids))

\* cam_files.values(): in insertion order, which is the order of the sorted
\* file names, which is the order of camera_names
values(cam_files) ==
    LET present == SelectSeq(camera_names, LAMBDA c : c \in DOMAIN cam_files)
    IN  [k \in 1..Len(present) |-> cam_files[present[k]]]

RECURSIVE extend_values(_, _)
\* for fid in selected_frame_ids: files_to_copy.extend(valid_frames[fid].values())
extend_values(valid, ids) ==
    IF Len(ids) = 0 THEN << >>
    ELSE extend_values(valid, SubSeq(ids, 1, Len(ids) - 1))
             \o values(valid[ids[Len(ids)]])

\* the order of the names as strings: "fisheye" < "pinhole" < "pinhole_d...",
\* "-" < "_", and frame numbers of one width order as numbers
CamOrder(cam) ==
    IF is_valid_camera(cam)
    THEN CHOOSE k \in 1..Len(camera_names) : camera_names[k] = cam
    ELSE 0

name_le(a, b) ==
    LET ka == << CamOrder(a.cam), IF a.sep = "-" THEN 0 ELSE 1, DecVal(a.frame_str) >>
        kb == << CamOrder(b.cam), IF b.sep = "-" THEN 0 ELSE 1, DecVal(b.frame_str) >>
    IN  \/ ka[1] < kb[1]
        \/ ka[1] = kb[1] /\ ka[2] < kb[2]
        \/ ka[1] = kb[1] /\ ka[2] = kb[2] /\ ka[3] <= kb[3]

RECURSIVE sorted_names(_)
\* sorted([...])
sorted_names(fs) ==
    IF Len(fs) = 0 THEN << >>
    ELSE LET rest == sorted_names(SubSeq(fs, 1, Len(fs) - 1))
             x == fs[Len(fs)]
             k == Cardinality({ j \in 1..Len(rest) : name_le(rest[j], x) })
         IN  SubSeq(rest, 1, k) \o << x >> \o SubSeq(rest, k + 1, Len(rest))

\* [f for f in os.listdir(args.input_dir) if f.endswith(".jpg")]
jpg_files(listing) == SelectSeq(listing, LAMBDA f : f.ext = ".jpg")

(***************************************************************************)
(* Inputs of the subset selection                                          *)
(***************************************************************************)
MaxFrameIds == 3

DigitChar(d) == CASE d = 0 -> "0" [] d = 1 -> "1" [] d = 2 -> "2"

\* the five-digit number of the k-th capture: 00000, 00001, 00002, 00010, ...
FrameStr(k) == << "0", "0", "0", DigitChar((k \div 3) % 3), DigitChar(k % 3) >>

CamFile(k, cam) == FileName(camera_names[cam], "_", FrameStr(k), ".jpg")

\* What a directory holds of one capture: the files of all four cameras; of
\* three cameras; nothing; of three cameras with the fourth under another
\* extension and another separator and a file of a camera not in the rig.
FrameKinds4 == {"complete", "incomplete", "absent", "lookalike"}

FrameFiles(kind, k) ==
    CASE kind = "complete" ->
           << CamFile(k, 4), CamFile(k, 3), CamFile(k, 2), CamFile(k, 1) >>
      [] kind = "incomplete" ->
           << CamFile(k, 4), CamFile(k, 2), CamFile(k, 1) >>
      [] kind = "absent" -> << >>
      [] kind = "lookalike" ->
           << FileName("fisheye", "_", FrameStr(k), ".jpg"),
              FileName(camera_names[4], "_", FrameStr(k), ".png"),
              FileName(camera_names[4], "-", FrameStr(k), ".jpg"),
              CamFile(k, 3), CamFile(k, 1), CamFile(k, 2) >>

RECURSIVE Listing(_)
\* os.listdir in no particular order: the later captures first
Listing(kinds) ==
    IF Len(kinds) = 0 THEN << >>
    ELSE FrameFiles(kinds[Len(kinds)], Len(kinds) - 1)
             \o Listing(SubSeq(kinds, 1, Len(kinds) - 1))

InputDir(exists, listing) == [exists |-> exists, listing |-> listing]

InputDirs ==
    { InputDir(FALSE, << >>) }
    \cup { InputDir(TRUE, Listing(kinds)) :
             kinds \in [1..MaxFrameIds -> FrameKinds4] }

Limit(n) == [none |-> FALSE, val |-> n]

MaxImagesArgs == { None } \cup { Limit(n) : n \in {0, 3, 4, 7, 8} }

(***************************************************************************)
(* select_subset_images.py, process_dataset()                              *)
(***************************************************************************)
\* lines 72-91: scan the directory, group the names, keep the complete frames
ScanAndGroup ==
    /\ spc = "start"
    /\ IF ~input_dir.exists
       THEN /\ spc' = "done"
            /\ UNCHANGED << all_files, grouped, valid_frames, sorted_frame_ids >>
       ELSE LET files == sorted_names(jpg_files(input_dir.listing))
                fs == group_files_by_frame(files)
                valid == filter_complete_frames(fs)
            IN  /\ all_files' = files
                /\ grouped' = fs
                /\ valid_frames' = valid
                /\ sorted_frame_ids' = sorted_ids(DOMAIN valid)
                /\ spc' = "select"
    /\ UNCHANGED << input_dir, nth, max_images, dry_run, selected_frame_ids,
                    files_to_copy, ci, output_dir >>
    /\ UNCHANGED << exportVars, combineVars, pointVars, colorVars, lasVars,
                    maskVars >>

\* lines 93-125: every nth id, at most max_images // 4 of them, their files
SelectFrames ==
    /\ spc = "select"
    /\ LET every_nth == Sampled(sorted_frame_ids, nth)
           selected == IF max_images.none THEN every_nth
                       ELSE Prefix(every_nth, max_images.val \div 4)
       IN  /\ selected_frame_ids' = selected
           /\ files_to_copy' = extend_values(valid_frames, selected)
    /\ spc' = IF dry_run THEN "done" ELSE "copy"
    /\ UNCHANGED << input_dir, nth, max_images, dry_run, all_files, grouped,
                    valid_frames, sorted_frame_ids, ci, output_dir >>
    /\ UNCHANGED << exportVars, combineVars, pointVars, colorVars, lasVars,
                    maskVars >>

\* lines 130-137: one iteration of the copy loop
CopyFile ==
    /\ spc = "copy"
    /\ ci < Len(files_to_copy)
    /\ output_dir' = output_dir \cup { files_to_copy[ci + 1] }
    /\ ci' = ci + 1
    /\ UNCHANGED << spc, input_dir, nth, max_images, dry_run, all_files,
                    grouped, valid_frames, sorted_frame_ids,
                    selected_frame_ids, files_to_copy >>
    /\ UNCHANGED << exportVars, combineVars, pointVars, colorVars, lasVars,
                    maskVars >>

\* line 139
FinishCopy ==
    /\ spc = "copy"
    /\ ci = Len(files_to_copy)
    /\ spc' = "done"
    /\ UNCHANGED << input_dir, nth, max_images, dry_run, all_files, grouped,
                    valid_frames, sorted_frame_ids, selected_frame_ids,
                    files_to_copy, ci, output_dir >>
    /\ UNCHANGED << exportVars, combineVars, pointVars, colorVars, lasVars,
                    maskVars >>

NextSelect == ScanAndGroup \/ SelectFrames \/ CopyFile \/ FinishCopy

(***************************************************************************)
(* prepare_mask.py, generate_sequence()                                    *)
(***************************************************************************)
\* CONFIG["min_padding"]
MIN_PADDING == 5

RECURSIVE str(_)
\* str(i) of a non-negative integer, as its decimal digits
str(i) == IF i < 10 THEN << i >> ELSE Append(str(i \div 10), i % 10)

\* s.zfill(width)
zfill(s, width) ==
    IF Len(s) >= width THEN s ELSE [k \in 1..(width - Len(s)) |-> 0] \o s

\* pad_width = max(min_pad, len(str(count)))
pad_width(cnt, pad) == IF pad > Len(str(cnt)) THEN pad ELSE Len(str(cnt))

\* f"{base_name}{str(i).zfill(pad_width)}{ext}"
mask_filename(i) ==
    [prefix |-> "mask", camera_type |-> "pinhole_duplicate2",
     index |-> zfill(str(i), pad_width(num_frames, min_pad)), ext |-> ".jpg"]

MaxCount == 12

MinPads == {1, 2, MIN_PADDING}

\* lines 77-89: one iteration of the loop: the copy, then the progress line
CopyFrame ==
    /\ mpc = "loop"
    /\ mi < num_frames
    /\ IF mi \in failing_copies
       THEN \* except OSError: break
            /\ mpc' = "done"
            /\ UNCHANGED << created, mi, mask_err >>
       ELSE /\ created' = Append(created, mask_filename(mi))
            /\ IF mi > 0 /\ num_frames \div 10 = 0
               THEN \* i % (count // 10) with count // 10 = 0
                    /\ mpc' = "raised"
                    /\ mask_err' = "ZeroDivisionError"
                    /\ UNCHANGED mi
               ELSE /\ mi' = mi + 1
                    /\ UNCHANGED << mpc, mask_err >>
    /\ UNCHANGED << num_frames, min_pad, failing_copies >>
    /\ UNCHANGED << exportVars, combineVars, pointVars, colorVars, lasVars,
                    selectVars >>

\* line 91: the loop has run through range(count)
FinishSequence ==
    /\ mpc = "loop"
    /\ mi = num_frames
    /\ mpc' = "done"
    /\ UNCHANGED << num_frames, min_pad, failing_copies, mi, created,
                    mask_err >>
    /\ UNCHANGED << exportVars, combineVars, pointVars, colorVars, lasVars,
                    selectVars >>

NextMask == CopyFrame \/ FinishSequence

(***************************************************************************)
(* Specifications                                                          *)
(***************************************************************************)
\* The pose export runs; the other scripts are not started.
Init ==
    /\ calib \in Calibs
    /\ vehicle_sensor_files \in FileSeqs(MaxFiles)
    /\ pc = "start"
    /\ err = "none"
    /\ idx = 0
    /\ frames = << >>
    /\ intrinsic_params = None
    /\ T_sensor_pom = << >>
    /\ T_ego_pom = << >>
    /\ T_w2c = << >>
    /\ T_converted = << >>
    /\ transforms_file = NoManifest
    /\ FRAME_STEP = FRAME_STEP_DEFAULT
    /\ input_files = << >>
    /\ cpc = "idle"
    /\ cindex = 0
    /\ master_data = EmptyDict
    /\ combined_frames = << >>
    /\ output_file = NotSaved
    /\ ppc = "idle"
    /\ points = << >>
    /\ ndim = 2
    /\ matrix = Identity4
    /\ transformed = Ok(<< >>)
    /\ kpc = "idle"
    /\ COLOR_FRAME_STEP = COLOR_FRAME_STEP_DEFAULT
    /\ meta = EmptyMeta
    /\ pcd_points = << >>
    /\ colors = << >>
    /\ fi = 0
    /\ img_w = 0
    /\ img_h = 0
    /\ xyz = << >>
    /\ final_mask = << >>
    /\ u_idx = << >>
    /\ v_idx = << >>
    /\ frame_state = << >>
    /\ visited = << >>
    /\ colors_before = << >>
    /\ output_cloud = NotWritten
    /\ lpc = "idle"
    /\ las_files = << >>
    /\ las_frames = << >>
    /\ li = 0
    /\ all_world_points = << >>
    /\ merged_points = << >>
    /\ ply_written = FALSE
    /\ transforms_json = TransformsJson(FALSE, << >>)
    /\ spc = "idle"
    /\ input_dir = InputDir(FALSE, << >>)
    /\ nth = 1
    /\ max_images = None
    /\ dry_run = TRUE
    /\ all_files = << >>
    /\ grouped = << >>
    /\ valid_frames = << >>
    /\ sorted_frame_ids = << >>
    /\ selected_frame_ids = << >>
    /\ files_to_copy = << >>
    /\ ci = 0
    /\ output_dir = {}
    /\ mpc = "idle"
    /\ num_frames = 0
    /\ min_pad = MIN_PADDING
    /\ failing_copies = {}
    /\ mi = 0
    /\ created = << >>
    /\ mask_err = "none"

Spec == Init /\ [][Next]_vars

\* combine_transforms runs; the other scripts are not started.
InitCombine ==
    /\ calib = IdleCalib
    /\ vehicle_sensor_files = << >>
    /\ pc = "idle"
    /\ err = "none"
    /\ idx = 0
    /\ frames = << >>
    /\ intrinsic_params = None
    /\ T_sensor_pom = << >>
    /\ T_ego_pom = << >>
    /\ T_w2c = << >>
    /\ T_converted = << >>
    /\ transforms_file = NoManifest
    /\ FRAME_STEP \in FrameSteps
    /\ input_files \in [1..NumInputFiles -> InputFile]
    /\ cpc = "merge"
    /\ cindex = 0
    /\ master_data = EmptyDict
    /\ combined_frames = << >>
    /\ output_file = NotSaved
    /\ ppc = "idle"
    /\ points = << >>
    /\ ndim = 2
    /\ matrix = Identity4
    /\ transformed = Ok(<< >>)
    /\ kpc = "idle"
    /\ COLOR_FRAME_STEP = COLOR_FRAME_STEP_DEFAULT
    /\ meta = EmptyMeta
    /\ pcd_points = << >>
    /\ colors = << >>
    /\ fi = 0
    /\ img_w = 0
    /\ img_h = 0
    /\ xyz = << >>
    /\ final_mask = << >>
    /\ u_idx = << >>
    /\ v_idx = << >>
    /\ frame_state = << >>
    /\ visited = << >>
    /\ colors_before = << >>
    /\ output_cloud = NotWritten
    /\ lpc = "idle"
    /\ las_files = << >>
    /\ las_frames = << >>
    /\ li = 0
    /\ all_world_points = << >>
    /\ merged_points = << >>
    /\ ply_written = FALSE
    /\ transforms_json = TransformsJson(FALSE, << >>)
    /\ spc = "idle"
    /\ input_dir = InputDir(FALSE, << >>)
    /\ nth = 1
    /\ max_images = None
    /\ dry_run = TRUE
    /\ all_files = << >>
    /\ grouped = << >>
    /\ valid_frames = << >>
    /\ sorted_frame_ids = << >>
    /\ selected_frame_ids = << >>
    /\ files_to_copy = << >>
    /\ ci = 0
    /\ output_dir = {}
    /\ mpc = "idle"
    /\ num_frames = 0
    /\ min_pad = MIN_PADDING
    /\ failing_copies = {}
    /\ mi = 0
    /\ created = << >>
    /\ mask_err = "none"

SpecCombine == InitCombine /\ [][NextCombine]_vars

\* One point batch is transformed; the other scripts are not started.
InitPoint ==
    /\ calib = IdleCalib
    /\ vehicle_sensor_files = << >>
    /\ pc = "idle"
    /\ err = "none"
    /\ idx = 0
    /\ frames = << >>
    /\ intrinsic_params = None
    /\ T_sensor_pom = << >>
    /\ T_ego_pom = << >>
    /\ T_w2c = << >>
    /\ T_converted = << >>
    /\ transforms_file = NoManifest
    /\ FRAME_STEP = FRAME_STEP_DEFAULT
    /\ input_files = << >>
    /\ cpc = "idle"
    /\ cindex = 0
    /\ master_data = EmptyDict
    /\ combined_frames = << >>
    /\ output_file = NotSaved
    /\ ppc = "input"
    /\ ndim \in {1, 2}
    /\ points \in (IF ndim = 2 THEN Batches ELSE FlatVectors)
    /\ matrix \in Matrices
    /\ transformed = Ok(<< >>)
    /\ kpc = "idle"
    /\ COLOR_FRAME_STEP = COLOR_FRAME_STEP_DEFAULT
    /\ meta = EmptyMeta
    /\ pcd_points = << >>
    /\ colors = << >>
    /\ fi = 0
    /\ img_w = 0
    /\ img_h = 0
    /\ xyz = << >>
    /\ final_mask = << >>
    /\ u_idx = << >>
    /\ v_idx = << >>
    /\ frame_state = << >>
    /\ visited = << >>
    /\ colors_before = << >>
    /\ output_cloud = NotWritten
    /\ lpc = "idle"
    /\ las_files = << >>
    /\ las_frames = << >>
    /\ li = 0
    /\ all_world_points = << >>
    /\ merged_points = << >>
    /\ ply_written = FALSE
    /\ transforms_json = TransformsJson(FALSE, << >>)
    /\ spc = "idle"
    /\ input_dir = InputDir(FALSE, << >>)
    /\ nth = 1
    /\ max_images = None
    /\ dry_run = TRUE
    /\ all_files = << >>
    /\ grouped = << >>
    /\ valid_frames = << >>
    /\ sorted_frame_ids = << >>
    /\ selected_frame_ids = << >>
    /\ files_to_copy = << >>
    /\ ci = 0
    /\ output_dir = {}
    /\ mpc = "idle"
    /\ num_frames = 0
    /\ min_pad = MIN_PADDING
    /\ failing_copies = {}
    /\ mi = 0
    /\ created = << >>
    /\ mask_err = "none"

SpecPoint == InitPoint /\ [][NextPoint]_vars

\* colorize_lidar runs; the other scripts are not started.
InitColor ==
    /\ calib = IdleCalib
    /\ vehicle_sensor_files = << >>
    /\ pc = "idle"
    /\ err = "none"
    /\ idx = 0
    /\ frames = << >>
    /\ intrinsic_params = None
    /\ T_sensor_pom = << >>
    /\ T_ego_pom = << >>
    /\ T_w2c = << >>
    /\ T_converted = << >>
    /\ transforms_file = NoManifest
    /\ FRAME_STEP = FRAME_STEP_DEFAULT
    /\ input_files = << >>
    /\ cpc = "idle"
    /\ cindex = 0
    /\ master_data = EmptyDict
    /\ combined_frames = << >>
    /\ output_file = NotSaved
    /\ ppc = "idle"
    /\ points = << >>
    /\ ndim = 2
    /\ matrix = Identity4
    /\ transformed = Ok(<< >>)
    /\ kpc = "load"
    /\ COLOR_FRAME_STEP \in ColorSteps
    /\ meta \in Metas(COLOR_FRAME_STEP)
    /\ pcd_points \in Clouds
    /\ colors = [p \in 1..Len(pcd_points) |-> Grey]
    /\ fi = 0
    /\ img_w = 0
    /\ img_h = 0
    /\ xyz = << >>
    /\ final_mask = << >>
    /\ u_idx = << >>
    /\ v_idx = << >>
    /\ frame_state = [j \in 1..Len(meta.frames) |-> "PENDING"]
    /\ visited = << >>
    /\ colors_before = colors
    /\ output_cloud = NotWritten
    /\ lpc = "idle"
    /\ las_files = << >>
    /\ las_frames = << >>
    /\ li = 0
    /\ all_world_points = << >>
    /\ merged_points = << >>
    /\ ply_written = FALSE
    /\ transforms_json = TransformsJson(FALSE, << >>)
    /\ spc = "idle"
    /\ input_dir = InputDir(FALSE, << >>)
    /\ nth = 1
    /\ max_images = None
    /\ dry_run = TRUE
    /\ all_files = << >>
    /\ grouped = << >>
    /\ valid_frames = << >>
    /\ sorted_frame_ids = << >>
    /\ selected_frame_ids = << >>
    /\ files_to_copy = << >>
    /\ ci = 0
    /\ output_dir = {}
    /\ mpc = "idle"
    /\ num_frames = 0
    /\ min_pad = MIN_PADDING
    /\ failing_copies = {}
    /\ mi = 0
    /\ created = << >>
    /\ mask_err = "none"

SpecColor == InitColor /\ [][NextColor]_vars

\* what ProjectPoints does to the position of main
ProjectPointsMoves == kpc = "project" /\ kpc' \in {"sample", "error"}

\* main is a sequential program: while it has a next statement, the statement
\* is executed
SpecColorFair ==
    /\ SpecColor
    /\ WF_vars(LoadImage)
    /\ WF_kpc(ProjectPointsMoves)
    /\ WF_vars(SampleColors)
    /\ WF_vars(WriteCloud)

\* las2ply_world_coords runs; the other scripts are not started.
InitLas ==
    /\ calib = IdleCalib
    /\ vehicle_sensor_files = << >>
    /\ pc = "idle"
    /\ err = "none"
    /\ idx = 0
    /\ frames = << >>
    /\ intrinsic_params = None
    /\ T_sensor_pom = << >>
    /\ T_ego_pom = << >>
    /\ T_w2c = << >>
    /\ T_converted = << >>
    /\ transforms_file = NoManifest
    /\ FRAME_STEP = FRAME_STEP_DEFAULT
    /\ input_files = << >>
    /\ cpc = "idle"
    /\ cindex = 0
    /\ master_data = EmptyDict
    /\ combined_frames = << >>
    /\ output_file = NotSaved
    /\ ppc = "idle"
    /\ points = << >>
    /\ ndim = 2
    /\ matrix = Identity4
    /\ transformed = Ok(<< >>)
    /\ kpc = "idle"
    /\ COLOR_FRAME_STEP = COLOR_FRAME_STEP_DEFAULT
    /\ meta = EmptyMeta
    /\ pcd_points = << >>
    /\ colors = << >>
    /\ fi = 0
    /\ img_w = 0
    /\ img_h = 0
    /\ xyz = << >>
    /\ final_mask = << >>
    /\ u_idx = << >>
    /\ v_idx = << >>
    /\ frame_state = << >>
    /\ visited = << >>
    /\ colors_before = << >>
    /\ output_cloud = NotWritten
    /\ lpc = "start"
    /\ las_files \in UNION { [1..n -> LasFiles] : n \in 0..MaxLas }
    /\ las_frames = << >>
    /\ li = 0
    /\ all_world_points = << >>
    /\ merged_points = << >>
    /\ ply_written = FALSE
    /\ transforms_json \in TransformsFiles
    /\ spc = "idle"
    /\ input_dir = InputDir(FALSE, << >>)
    /\ nth = 1
    /\ max_images = None
    /\ dry_run = TRUE
    /\ all_files = << >>
    /\ grouped = << >>
    /\ valid_frames = << >>
    /\ sorted_frame_ids = << >>
    /\ selected_frame_ids = << >>
    /\ files_to_copy = << >>
    /\ ci = 0
    /\ output_dir = {}
    /\ mpc = "idle"
    /\ num_frames = 0
    /\ min_pad = MIN_PADDING
    /\ failing_copies = {}
    /\ mi = 0
    /\ created = << >>
    /\ mask_err = "none"

SpecLas == InitLas /\ [][NextLas]_vars

\* what ProcessSingleFrame does to the loop variable
ProcessSingleFrameMoves == lpc = "loop" /\ li < count /\ li' = li + 1

\* main is a sequential program: while it has a next statement, the statement
\* is executed
\* what LoadData does to the position
LoadDataMoves == lpc = "start" /\ lpc' \in {"loop", "error"}

SpecLasFair ==
    /\ SpecLas
    /\ WF_lpc(LoadDataMoves)
    /\ WF_li(ProcessSingleFrameMoves)
    /\ WF_vars(SavePointCloud)

\* The subset selection runs; the other scripts are not started.
InitSelect ==
    /\ calib = IdleCalib
    /\ vehicle_sensor_files = << >>
    /\ pc = "idle"
    /\ err = "none"
    /\ idx = 0
    /\ frames = << >>
    /\ intrinsic_params = None
    /\ T_sensor_pom = << >>
    /\ T_ego_pom = << >>
    /\ T_w2c = << >>
    /\ T_converted = << >>
    /\ transforms_file = NoManifest
    /\ FRAME_STEP = FRAME_STEP_DEFAULT
    /\ input_files = << >>
    /\ cpc = "idle"
    /\ cindex = 0
    /\ master_data = EmptyDict
    /\ combined_frames = << >>
    /\ output_file = NotSaved
    /\ ppc = "idle"
    /\ points = << >>
    /\ ndim = 2
    /\ matrix = Identity4
    /\ transformed = Ok(<< >>)
    /\ kpc = "idle"
    /\ COLOR_FRAME_STEP = COLOR_FRAME_STEP_DEFAULT
    /\ meta = EmptyMeta
    /\ pcd_points = << >>
    /\ colors = << >>
    /\ fi = 0
    /\ img_w = 0
    /\ img_h = 0
    /\ xyz = << >>
    /\ final_mask = << >>
    /\ u_idx = << >>
    /\ v_idx = << >>
    /\ frame_state = << >>
    /\ visited = << >>
    /\ colors_before = << >>
    /\ output_cloud = NotWritten
    /\ lpc = "idle"
    /\ las_files = << >>
    /\ las_frames = << >>
    /\ li = 0
    /\ all_world_points = << >>
    /\ merged_points = << >>
    /\ ply_written = FALSE
    /\ transforms_json = TransformsJson(FALSE, << >>)
    /\ spc = "start"
    /\ input_dir \in InputDirs
    /\ nth \in 1..MaxFrameIds
    /\ max_images \in MaxImagesArgs
    /\ dry_run \in BOOLEAN
    /\ all_files = << >>
    /\ grouped = << >>
    /\ valid_frames = << >>
    /\ sorted_frame_ids = << >>
    /\ selected_frame_ids = << >>
    /\ files_to_copy = << >>
    /\ ci = 0
    /\ output_dir = {}
    /\ mpc = "idle"
    /\ num_frames = 0
    /\ min_pad = MIN_PADDING
    /\ failing_copies = {}
    /\ mi = 0
    /\ created = << >>
    /\ mask_err = "none"

SpecSelect == InitSelect /\ [][NextSelect]_vars

\* The mask sequence is generated; the other scripts are not started.
InitMask ==
    /\ calib = IdleCalib
    /\ vehicle_sensor_files = << >>
    /\ pc = "idle"
    /\ err = "none"
    /\ idx = 0
    /\ frames = << >>
    /\ intrinsic_params = None
    /\ T_sensor_pom = << >>
    /\ T_ego_pom = << >>
    /\ T_w2c = << >>
    /\ T_converted = << >>
    /\ transforms_file = NoManifest
    /\ FRAME_STEP = FRAME_STEP_DEFAULT
    /\ input_files = << >>
    /\ cpc = "idle"
    /\ cindex = 0
    /\ master_data = EmptyDict
    /\ combined_frames = << >>
    /\ output_file = NotSaved
    /\ ppc = "idle"
    /\ points = << >>
    /\ ndim = 2
    /\ matrix = Identity4
    /\ transformed = Ok(<< >>)
    /\ kpc = "idle"
    /\ COLOR_FRAME_STEP = COLOR_FRAME_STEP_DEFAULT
    /\ meta = EmptyMeta
    /\ pcd_points = << >>
    /\ colors = << >>
    /\ fi = 0
    /\ img_w = 0
    /\ img_h = 0
    /\ xyz = << >>
    /\ final_mask = << >>
    /\ u_idx = << >>
    /\ v_idx = << >>
    /\ frame_state = << >>
    /\ visited = << >>
    /\ colors_before = << >>
    /\ output_cloud = NotWritten
    /\ lpc = "idle"
    /\ las_files = << >>
    /\ las_frames = << >>
    /\ li = 0
    /\ all_world_points = << >>
    /\ merged_points = << >>
    /\ ply_written = FALSE
    /\ transforms_json = TransformsJson(FALSE, << >>)
    /\ spc = "idle"
    /\ input_dir = InputDir(FALSE, << >>)
    /\ nth = 1
    /\ max_images = None
    /\ dry_run = TRUE
    /\ all_files = << >>
    /\ grouped = << >>
    /\ valid_frames = << >>
    /\ sorted_frame_ids = << >>
    /\ selected_frame_ids = << >>
    /\ files_to_copy = << >>
    /\ ci = 0
    /\ output_dir = {}
    /\ mpc = "loop"
    /\ num_frames \in 0..MaxCount
    /\ min_pad \in MinPads
    /\ failing_copies \in { {} } \cup { {i} : i \in 0..(num_frames - 1) }
    /\ mi = 0
    /\ created = << >>
    /\ mask_err = "none"

SpecMask == InitMask /\ [][NextMask]_vars

(***************************************************************************)
(* Properties of the pose export (checked under Spec)                      *)
(***************************************************************************)
\* The ego-motion array of the record the loop handled last
LastArray == vehicle_sensor_files[idx].rt

BottomRow == << 0, 0, 0, 1 >>

FiniteAngles ==
    /\ calib.rotation.yaw.kind = "fin"
    /\ calib.rotation.pitch.kind = "fin"
    /\ calib.rotation.roll.kind = "fin"

C2_MalformedRecordFails ==
    (idx > 0 /\ Len(LastArray) # 16) =>
        /\ pc = "error"
        /\ err # "none"
        /\ T_sensor_pom # << >> => err = "ValueError: cannot reshape"
        /\ T_ego_pom = << >>
        /\ T_w2c = << >>
        /\ T_converted = << >>
        /\ Len(frames) = idx - 1
        /\ ~transforms_file.written

C2_Witness ==
    /\ idx > 0
    /\ LastArray = Short15
    /\ pc = "error"
    /\ err = "ValueError: cannot reshape"

\* sin and cos of the configured angles, for the closed form of Rz.Ry.Rx
SinYaw == sin(radians(calib.rotation.yaw))

CosYaw == cos(radians(calib.rotation.yaw))

SinPitch == sin(radians(calib.rotation.pitch))

CosPitch == cos(radians(calib.rotation.pitch))

SinRoll == sin(radians(calib.rotation.roll))

CosRoll == cos(radians(calib.rotation.roll))

\* The entries of Rz(yaw) . Ry(pitch) . Rx(roll), multiplied out
RzRyRx ==
    << << CosYaw * CosPitch,
          CosYaw * SinPitch * SinRoll - SinYaw * CosRoll,
          CosYaw * SinPitch * CosRoll + SinYaw * SinRoll >>,
       << SinYaw * CosPitch,
          SinYaw * SinPitch * SinRoll + CosYaw * CosRoll,
          SinYaw * SinPitch * CosRoll - CosYaw * SinRoll >>,
       << 0 - SinPitch,
          CosPitch * SinRoll,
          CosPitch * CosRoll >> >>

C4_InvalidInputFails ==
    (idx > 0 /\ calib.missing = "none"
       /\ (Len(calib.position) # 3 \/ ~FiniteAngles)) =>
        /\ T_sensor_pom = << >>
        /\ pc = "error"

\* Entry (r, c) of the product T_ego_pom . T_sensor_pom, written out
EgoTimesSensor(r, c) ==
    T_ego_pom[r][1] * T_sensor_pom[1][c] + T_ego_pom[r][2] * T_sensor_pom[2][c]
      + T_ego_pom[r][3] * T_sensor_pom[3][c]
      + T_ego_pom[r][4] * T_sensor_pom[4][c]

\* C5: the pose calculate_ns_transform_matrix returns has its rotation block
\* equal to the rotation block of (ego pose . sensor pose) right-multiplied by
\* the fixed convention matrix, and its translation column equal to the
\* translation column of (ego pose . sensor pose), neither permuted nor
\* sign-flipped; the ego (body) pose is the left factor.  The frame appended
\* for the record carries exactly that pose.
C5_ComposedPose ==
    (idx > 0 /\ T_converted # << >> /\ FiniteAngles) =>
        /\ \A r, c \in 1..3 :
              T_converted[r][c] =
                  EgoTimesSensor(r, 1) * T_permutation[1][c]
                    + EgoTimesSensor(r, 2) * T_permutation[2][c]
                    + EgoTimesSensor(r, 3) * T_permutation[3][c]
        /\ \A r \in 1..3 : T_converted[r][4] = EgoTimesSensor(r, 4)
        /\ Len(frames) = idx => frames[idx].transform_matrix = T_converted

C5_Witness ==
    /\ idx > 0
    /\ FiniteAngles
    /\ LastArray = RigidB
    /\ calib.rotation.yaw.deg = 0
    /\ calib.rotation.pitch.deg = 90
    /\ calib.position = << 7, 8, 9 >>
    /\ Len(frames) = idx
    /\ frames[idx].transform_matrix = T_converted

\* C6: the convention matrix is a signed permutation (one nonzero entry, of
\* magnitude 1, in every row and every column), and in the converted rotation
\* camera X (column 0) is minus the source left axis (column 1), camera Y
\* (column 1) is the source up axis (column 2) and camera Z (column 2) is
\* minus the source forward axis (column 0).
C6_AxisConvention ==
    /\ \A i, j \in 1..3 : T_permutation[i][j] \in {-1, 0, 1}
    /\ \A i \in 1..3 :
          /\ Cardinality({j \in 1..3 : T_permutation[i][j] # 0}) = 1
          /\ Cardinality({j \in 1..3 : T_permutation[j][i] # 0}) = 1
    /\ (idx > 0 /\ T_converted # << >> /\ FiniteAngles) =>
          \A r \in 1..3 :
              /\ T_converted[r][1] = 0 - T_w2c[r][2]
              /\ T_converted[r][2] = T_w2c[r][3]
              /\ T_converted[r][3] = 0 - T_w2c[r][1]

C6_Witness ==
    /\ idx > 0
    /\ FiniteAngles
    /\ T_converted # << >>
    /\ LastArray = Distinct16
    /\ calib.rotation.yaw.deg = 90

\* The array of the last record is a homogeneous pose: its elements 3, 7, 11
\* and 15 (0-based) are 0, 0, 0, 1.
LastArrayHomogeneous ==
    /\ Len(LastArray) = 16
    /\ << LastArray[4], LastArray[8], LastArray[12], LastArray[16] >>
          = BottomRow

\* C7 (as claimed): every pose held - sensor pose, ego pose, composed pose,
\* exported frame pose - has bottom row [0,0,0,1], for every 16-element array.
C7_EveryPoseBottomRow ==
    /\ T_sensor_pom # << >> => T_sensor_pom[4] = BottomRow
    /\ T_ego_pom # << >> => T_ego_pom[4] = BottomRow
    /\ T_w2c # << >> => T_w2c[4] = BottomRow
    /\ T_converted # << >> => T_converted[4] = BottomRow
    /\ \A k \in 1..Len(frames) : frames[k].transform_matrix[4] = BottomRow

\* C7 (amended): the sensor pose from the builder and every exported pose
\* have bottom row [0,0,0,1] for every input; the ego pose has it when (and
\* only when) elements 3, 7, 11, 15 of the array are 0, 0, 0, 1, and then the
\* composed pose has it too, provided the sensor pose is finite.
C7_BottomRowAmended ==
    /\ T_sensor_pom # << >> => T_sensor_pom[4] = BottomRow
    /\ T_converted # << >> => T_converted[4] = BottomRow
    /\ \A k \in 1..Len(frames) : frames[k].transform_matrix[4] = BottomRow
    /\ transforms_file.written =>
          \A k \in 1..Len(transforms_file.frames) :
              transforms_file.frames[k].transform_matrix[4] = BottomRow
    /\ (idx > 0 /\ T_ego_pom # << >>) =>
          /\ (T_ego_pom[4] = BottomRow) <=> LastArrayHomogeneous
          /\ (LastArrayHomogeneous /\ FiniteAngles) => T_w2c[4] = BottomRow

C7_Witness ==
    /\ pc = "done"
    /\ idx > 0
    /\ LastArray = Distinct16
    /\ T_ego_pom[4] = << 4, 8, 12, 16 >>
    /\ transforms_file.frames[idx].transform_matrix[4] = BottomRow

\* C8: the export appends one frame per record, in the order of the input
\* collection: while the loop runs the frames list has one entry per record
\* handled, the k-th entry is the one built from the k-th record (its id, its
\* paths and its pose), and the manifest written at the end holds exactly
\* one entry per input record, in input order.
C8_OneFramePerRecordInOrder ==
    /\ Len(frames) <= idx
    /\ pc \in {"loop", "done"} => Len(frames) = idx
    /\ \A k \in 1..Len(frames) :
          LET record == vehicle_sensor_files[k]
          IN  /\ frames[k].colmap_im_id = DecVal(record.rest)
              /\ frames[k].file_path = << "images", "pinhole", record.rest >>
              /\ frames[k].mask_path
                    = << "masks", "mask", "pinhole", record.rest >>
              /\ frames[k].transform_matrix
                    = calculate_ns_transform_matrix(calib, record.rt).converted
    /\ pc = "done" =>
          /\ transforms_file.written
          /\ transforms_file.frames = frames
          /\ Len(transforms_file.frames) = Len(vehicle_sensor_files)
    /\ transforms_file.written => pc = "done"

C8_Witness ==
    /\ pc = "done"
    /\ Len(transforms_file.frames) = 2
    /\ transforms_file.frames[1].colmap_im_id = 12
    /\ transforms_file.frames[2].colmap_im_id = 0
    /\ transforms_file.frames[1].transform_matrix
          # transforms_file.frames[2].transform_matrix

(***************************************************************************)
(* Properties of the manifest concatenation (checked under SpecCombine)    *)
(***************************************************************************)
Ids(fs) == [i \in 1..Len(fs) |-> fs[i].colmap_im_id]

Cams(fs) == [i \in 1..Len(fs) |-> fs[i].cam]

Positions(fs) == [i \in 1..Len(fs) |-> fs[i].pos]

Missing == [exists |-> FALSE, n |-> 0]

Present(n) == [exists |-> TRUE, n |-> n]

C10_PointTransform ==
    (ppc \in {"applied", "projected"} /\ ndim = 2 /\ IsNx3(points)) =>
        /\ transformed.err = "none"
        /\ Len(transformed.val) = Len(points)
        /\ \A i \in 1..Len(points) :
              /\ Len(transformed.val[i]) = 3
              /\ \A c \in 1..3 :
                    transformed.val[i][c] =
                        matrix[c][1] * points[i][1] + matrix[c][2] * points[i][2]
                          + matrix[c][3] * points[i][3] + matrix[c][4]

C10_Witness ==
    /\ ppc = "applied"
    /\ points = << << 1, 2, 3 >>, << -4, 5, 6 >> >>
    /\ matrix[1] = << 1, 5, 9, 13 >>
    /\ transformed.val = << << 51, 58, 65 >>, << 88, 96, 104 >> >>

\* a 4x4 matrix whose bottom row is [0, 0, 0, 1] and whose rotation block is
\* a signed permutation matrix
IsRigid(M) ==
    /\ M[4] = << 0, 0, 0, 1 >>
    /\ \A r \in 1..3 : \A c \in 1..3 : M[r][c] \in {-1, 0, 1}
    /\ \A r \in 1..3 : Cardinality({c \in 1..3 : M[r][c] # 0}) = 1
    /\ \A c \in 1..3 : Cardinality({r \in 1..3 : M[r][c] # 0}) = 1

\* C11: for every rigid transform T (signed-permutation rotation, integer
\* translation) and every N x 3 batch P, transforming P by T and the result
\* by the inverse of T gives back P exactly.
C11_RoundTrip ==
    (ppc = "restored" /\ IsRigid(matrix)) => transformed = Ok(points)

C11_Witness ==
    /\ ppc = "restored"
    /\ matrix = reshape_rt_transform(RigidB).val
    /\ linalg_inv(matrix).val[1] = << 0, 1, 0, -5 >>
    /\ points = << << 1, 2, 3 >>, << -4, 5, 6 >> >>
    /\ transformed = Ok(points)

\* C12: a batch that is not N x 3 (N x 2, N x 4, a flat vector of length 3)
\* given to apply_matrix_transform, and an N x 3 batch given to
\* get_ego_points, fail with a dimension error; no batch is returned.
C12_NonNx3Fails ==
    /\ (ppc = "applied" /\ (ndim = 1 \/ ~IsNx3(points))) =>
            (transformed.err # "none" /\ transformed.val = << >>)
    /\ (ppc = "ego" /\ ndim = 2 /\ IsNx3(points)) =>
            (transformed.err # "none" /\ transformed.val = << >>)

(***************************************************************************)
(* Properties of the projector (checked under SpecColor / SpecColorFair)   *)
(***************************************************************************)
\* the frame visited last has been projected and its colors are written
JustSampled ==
    /\ kpc = "load"
    /\ Len(visited) > 0
    /\ frame_state[visited[Len(visited)] + 1] = "COLORED"

LastFrame == meta.frames[visited[Len(visited)] + 1]

\* u (or v) of a point in front of the camera is exactly n
ProjectsTo(x, Z, fl, c, n) == Z > 0 /\ x * fl + c * Z = n * Z

\* C13: in every sampled frame, a point whose camera-space depth is at most
\* 0.1 (zero and negative depths included) is outside the frame's mask and
\* keeps the color it had before the frame, whatever pixel it projects to.
C13_DepthFilter ==
    (kpc \in {"sample", "load"} /\ Len(xyz) = Len(colors)) =>
        \A p \in 1..Len(xyz) :
            xyz[p][3] <= Z_EPSILON =>
                (~final_mask[p] /\ colors[p] = colors_before[p])

C13_Witness ==
    /\ JustSampled
    /\ LastFrame = Frame("ok", 4, 3, Identity4)
    /\ meta.cx = 2
    /\ pcd_points = CloudFull
    /\ xyz[3] = << 0, 0, 1 >> /\ colors[3] = Grey
    /\ xyz[4] = << 0, 0, 0 >> /\ colors[4] = Grey
    /\ xyz[5] = << 0, 0, -20 >> /\ colors[5] = Grey
    /\ final_mask[1] /\ colors[1] # Grey

\* C14: every pixel read has its column in [0, width) and its row in
\* [0, height) of the image read for the frame; a point whose u is exactly
\* width - 1, or whose v is exactly height - 1, is outside the mask and keeps
\* its color.
C14_BoundsFilter ==
    JustSampled =>
        \A p \in 1..Len(xyz) :
            /\ final_mask[p] =>
                  /\ img_w = LastFrame.img_w /\ img_h = LastFrame.img_h
                  /\ u_idx[p] >= 0 /\ u_idx[p] < img_w
                  /\ v_idx[p] >= 0 /\ v_idx[p] < img_h
            /\ ( \/ ProjectsTo(xyz[p][1], xyz[p][3], meta.fl_x, meta.cx, img_w - 1)
                 \/ ProjectsTo(xyz[p][2], xyz[p][3], meta.fl_y, meta.cy, img_h - 1) )
                  => (~final_mask[p] /\ colors[p] = colors_before[p])

C14_Witness ==
    /\ JustSampled
    /\ LastFrame = Frame("ok", 4, 3, Identity4)
    /\ meta.fl_x = 4
    /\ pcd_points = CloudFull
    /\ xyz[2] = << 2, 0, 8 >> /\ ~final_mask[2] /\ colors[2] = Grey
    /\ xyz[7] = << 0, 4, 8 >> /\ ~final_mask[7] /\ colors[7] = Grey
    /\ xyz[6] = << 1, 3, 8 >> /\ final_mask[6]
    /\ u_idx[6] = 2 /\ v_idx[6] = 1

\* frame j (counted from 0) is one the loop visits and its image is read
Sampled_ok(j) ==
    j % COLOR_FRAME_STEP = 0 /\ meta.frames[j + 1].image = "ok"

\* camera-space coordinates of the points in frame j
XyzIn(j) == camera_space(pcd_points, get_camera_matrix(meta, j).val)

\* a point at camera-space coordinates c passes the filters of frame j
PassesAt(j, c) ==
    passes(c, meta, meta.frames[j + 1].img_w, meta.frames[j + 1].img_h)

\* the color of the pixel of frame j under camera-space coordinates c
SampleAt(j, c) ==
    normalize(cvtColor(imread_pixel(j,
        pixel_idx(c[2], c[3], meta.fl_y, meta.cy),
        pixel_idx(c[1], c[3], meta.fl_x, meta.cx))))

SampleIn(j, p) == SampleAt(j, XyzIn(j)[p])

\* the frames whose colors have been written so far
ColoredFrames ==
    { j \in 0..(Len(meta.frames) - 1) :
        Sampled_ok(j) /\ frame_state[j + 1] = "COLORED" }

\* the camera-space coordinates of the points in each of those frames
ColoredXyz == [j \in ColoredFrames |-> XyzIn(j)]

\* the frames written so far in which point p passed
WritersOf(p) == { j \in ColoredFrames : PassesAt(j, XyzIn(j)[p]) }

Highest(S) == CHOOSE j \in S : \A k \in S : k <= j

\* C15: the frames are visited at 0, STEP, 2 * STEP, ... in increasing order,
\* all of them by the time the cloud is saved, and the saved color of every
\* point that passed in some visited frame is the sample of the visited frame
\* of highest index in which it passed.
C15_LastWriterWins ==
    /\ \A k \in 1..Len(visited) : visited[k] = (k - 1) * COLOR_FRAME_STEP
    /\ kpc = "saved" =>
          /\ \A j \in 0..(Len(meta.frames) - 1) :
                j % COLOR_FRAME_STEP = 0 => \E k \in 1..Len(visited) : visited[k] = j
          /\ \A cam \in { ColoredXyz } : \A p \in 1..Len(pcd_points) :
                \A writers \in { { j \in ColoredFrames : PassesAt(j, cam[j][p]) } } :
                    writers # {} =>
                        output_cloud.colors[p] =
                            SampleAt(Highest(writers), cam[Highest(writers)][p])

C15_Witness ==
    /\ kpc = "saved"
    /\ COLOR_FRAME_STEP = COLOR_FRAME_STEP_DEFAULT
    /\ visited = << 0, 10 >>
    /\ Len(pcd_points) = 1
    /\ WritersOf(1) = { 0, 10 }
    /\ SampleIn(0, 1) # SampleIn(10, 1)
    /\ output_cloud.colors[1] = SampleIn(10, 1)

\* C16: a point that passed the filter of no visited frame is grey (all
\* points when every frame was skipped); the positions never change and are
\* the ones saved; a step changes the color of a point only when the point
\* passes the filter of the frame being sampled.
C16_UntouchedStayGrey ==
    /\ [](\A cam \in { ColoredXyz } : \A p \in 1..Len(pcd_points) :
              (\A j \in ColoredFrames : ~PassesAt(j, cam[j][p])) => colors[p] = Grey)
    /\ [](output_cloud.written =>
             (output_cloud.points = pcd_points /\ output_cloud.colors = colors))
    /\ [][ /\ pcd_points' = pcd_points
           /\ \A p \in 1..Len(colors) :
                 colors'[p] # colors[p] => (kpc = "sample" /\ final_mask[p]) ]_vars

C16_Witness ==
    /\ kpc = "saved"
    /\ pcd_points = CloudFull
    /\ Len(visited) = 2
    /\ \A j \in 1..Len(frame_state) : frame_state[j] # "SKIPPED"
    /\ WritersOf(4) = {} /\ output_cloud.colors[4] = Grey
    /\ WritersOf(2) = {} /\ output_cloud.colors[2] = Grey
    /\ WritersOf(1) # {} /\ output_cloud.colors[1] # Grey

\* the steps a frame's processing may take
FrameStep(a, b) ==
    \/ a = "PENDING" /\ b \in {"LOADED", "SKIPPED"}
    \/ a = "LOADED" /\ b = "PROJECTED"
    \/ a = "PROJECTED" /\ b = "COLORED"

\* C17: a frame goes PENDING, LOADED, PROJECTED, COLORED, or from PENDING to
\* SKIPPED, the latter exactly when its image is missing or unreadable;
\* SKIPPED and COLORED are final; a skip changes no color and leaves the run
\* in its loop; when the cloud is saved every sampled frame is SKIPPED or
\* COLORED; and after a skip the cloud is still saved.
C17_FrameStateMachine ==
    /\ [][ \A j \in 1..Len(frame_state) :
              /\ frame_state'[j] # frame_state[j] =>
                    FrameStep(frame_state[j], frame_state'[j])
              /\ (frame_state[j] = "PENDING" /\ frame_state'[j] # "PENDING") =>
                    /\ j = fi + 1
                    /\ (frame_state'[j] = "SKIPPED") <=>
                           (meta.frames[j].image \in {"missing", "unreadable"})
              /\ (frame_state'[j] = "SKIPPED" /\ frame_state[j] # "SKIPPED") =>
                    (colors' = colors /\ kpc' = "load" /\ fi' = fi + COLOR_FRAME_STEP) ]_vars
    /\ [](kpc = "saved" =>
             \A j \in 1..Len(frame_state) :
                 IF (j - 1) % COLOR_FRAME_STEP = 0
                 THEN frame_state[j] \in {"SKIPPED", "COLORED"}
                 ELSE frame_state[j] = "PENDING")
    /\ [](kpc # "error")
    /\ (\E j \in 1..Len(frame_state) : frame_state[j] = "SKIPPED")
           ~> (output_cloud.written /\ kpc = "saved")

C17_Witness ==
    /\ kpc = "saved"
    /\ output_cloud.written
    /\ Len(frame_state) = 3
    /\ COLOR_FRAME_STEP = 2
    /\ frame_state = << "SKIPPED", "PENDING", "COLORED" >>
    /\ meta.frames[1].image = "unreadable"
    /\ \E p \in 1..Len(colors) : colors[p] # Grey

\* C18: identity camera pose, fx = fy = 500, cx = cy = 0, a 100 x 100 image
\* and the world point (0, 0, -5): its camera-space coordinates are (0, 0, 5),
\* it projects to (u, v) = (0, 0), passes the filter and takes the color of
\* the image's pixel at row 0, column 0.
C18_EndToEnd ==
    ( /\ JustSampled
      /\ LastFrame = Frame("ok", 100, 100, Identity4)
      /\ meta.fl_x = 500 /\ meta.fl_y = 500 /\ meta.cx = 0 /\ meta.cy = 0 ) =>
        \A p \in 1..Len(pcd_points) :
            pcd_points[p] = << 0, 0, -50 >> =>
                /\ xyz[p] = << 0, 0, 50 >>
                /\ final_mask[p]
                /\ u_idx[p] = 0 /\ v_idx[p] = 0
                /\ colors[p] =
                     normalize(cvtColor(imread_pixel(visited[Len(visited)], 0, 0)))

C18_Witness ==
    /\ JustSampled
    /\ visited = << 0, 2 >>
    /\ LastFrame = Frame("ok", 100, 100, Identity4)
    /\ meta.fl_x = 500
    /\ Len(pcd_points) = 1
    /\ pcd_points[1] = << 0, 0, -50 >>
    /\ xyz[1] = << 0, 0, 50 >>
    /\ colors[1] = << 4, 0, 0 >>

(***************************************************************************)
(* Properties of the calibration loading (checked under Spec)              *)
(***************************************************************************)
\* C19: when the calibration document lacks an expected field, the loader
\* raises the missing-key error at once and returns nothing, no frame is
\* processed and no manifest is written.
C19_MissingFieldAborts ==
    calib.missing # "none" =>
        /\ idx = 0
        /\ frames = << >>
        /\ ~transforms_file.written
        /\ pc # "start" => (pc = "error" /\ err = "KeyError")

(***************************************************************************)
(* Properties of the LiDAR alignment (checked under SpecLasFair)           *)
(***************************************************************************)
\* a file that can be read and holds points
Readable(f) == f.status = "ok" /\ Len(f.local_points) > 0

\* the world points of one local point: the frame's pose applied to the
\* orientation fix of the point
WorldPoint(T, p) ==
    LET M == MatMul(T, rotation_fix)
    IN  [c \in 1..3 |-> M[c][1] * p[1] + M[c][2] * p[2] + M[c][3] * p[3] + M[c][4]]

RECURSIVE Contributions(_)
\* what the readable files among the first n give, in file order
Contributions(n) ==
    IF n = 0 THEN << >>
    ELSE IF Readable(las_files[n])
    THEN Append(Contributions(n - 1),
                [k \in 1..Len(las_files[n].local_points) |->
                    WorldPoint(las_frames[n].transform_matrix,
                               las_files[n].local_points[k])])
    ELSE Contributions(n - 1)

ReadableFiles == { n \in 1..Len(las_files) : Readable(las_files[n]) }

\* C20: for any sequence of LiDAR files of which some are unreadable or
\* empty, the failing files are skipped and every readable non-empty file,
\* before or after a failing one, has contributed its transformed points, in
\* file order, when the run reaches the save step.
C20_EveryReadableFileContributes ==
    lpc = "saved" =>
        /\ \A n \in ReadableFiles : n <= li
        /\ Len(all_world_points) = Cardinality(ReadableFiles)
        /\ all_world_points = Contributions(li)

\* C20 (amended): failing files among the first count = min(#files, #frames)
\* are skipped, every readable non-empty file among those has contributed its
\* transformed points, in file order; files past count contribute nothing;
\* the run always reaches the save step, which writes the merged points
\* unless no file contributed.
C20_SkipPolicyAmended ==
    /\ [](all_world_points = Contributions(li))
    /\ [](lpc = "saved" =>
             /\ li = count
             /\ ply_written <=> (\E n \in 1..count : Readable(las_files[n]))
             /\ ply_written => merged_points = vstack(Contributions(count)))
    /\ (lpc = "loop") ~> (lpc = "saved")

C20_Witness ==
    /\ lpc = "saved"
    /\ Len(las_files) = 3 /\ Len(las_frames) = 3
    /\ las_files[1] = LasFile("ok", << << 1, 2, 3 >> >>)
    /\ las_files[2].status = "unreadable"
    /\ las_files[3] = LasFile("ok", << << 0, 0, -5 >>, << -4, 5, 6 >> >>)
    /\ Len(all_world_points) = 2
    /\ ply_written
    /\ Len(merged_points) = 3

(***************************************************************************)
(* The alignment chain (checked under SpecLasFair)                         *)
(***************************************************************************)
\* T_body_from_sensor: the pose of the LiDAR's own calibration entry
LidarPose ==
    calculate_ns_transform_matrix(SensorCalib("lidar_sensor"), EgoOf(0)).sensor

\* T_world_from_body . T_body_from_sensor . p for the capture of frame f
ChainedPoint(f, p) ==
    LET M == MatMul(reshape_rt_transform(EgoOf(f.file_path[3])).val, LidarPose)
    IN  [c \in 1..3 |-> M[c][1] * p[1] + M[c][2] * p[2] + M[c][3] * p[3] + M[c][4]]

RECURSIVE ChainedContributions(_)
\* the chained world points of the readable files among the first n
ChainedContributions(n) ==
    IF n = 0 THEN << >>
    ELSE IF Readable(las_files[n])
    THEN Append(ChainedContributions(n - 1),
                [k \in 1..Len(las_files[n].local_points) |->
                    ChainedPoint(las_frames[n], las_files[n].local_points[k])])
    ELSE ChainedContributions(n - 1)

\* C21: every sensor-space point p that the alignment has placed is at
\* world = T_world_from_body . T_body_from_sensor . p, with the LiDAR's
\* calibration pose and the ego pose of the capture of the frame it was
\* paired with.
C21_ChainedComposition ==
    all_world_points = ChainedContributions(li)

(***************************************************************************)
(* Intrinsics loading (checked under Spec)                                 *)
(***************************************************************************)
\* the list d filled up with zeros to five entries
PaddedCoeffs(d) == SubSeq(d \o << 0, 0, 0, 0, 0 >>, 1, 5)

\* C22: for every distortion-coefficient list d of length 0..5 of a
\* calibration that has all its keys, the loaded intrinsics have k1 = d[0],
\* k2 = d[1], p1 = d[2], p2 = d[3], k3 = d[4], each coefficient past the end
\* of d being 0, and width, height, focal lengths and principal point are
\* those of the calibration entry.
C22_IntrinsicsLoaded ==
    (pc # "start" /\ calib.missing = "none" /\ Len(calib.dist_coeffs) <= 5) =>
        LET d == PaddedCoeffs(calib.dist_coeffs)
        IN  /\ ~intrinsic_params.none
            /\ intrinsic_params.k1 = d[1]
            /\ intrinsic_params.k2 = d[2]
            /\ intrinsic_params.p1 = d[3]
            /\ intrinsic_params.p2 = d[4]
            /\ intrinsic_params.k3 = d[5]
            /\ intrinsic_params.w = calib.width
            /\ intrinsic_params.h = calib.height
            /\ << intrinsic_params.fl_x, intrinsic_params.fl_y >>
                   = calib.focal_length
            /\ << intrinsic_params.cx, intrinsic_params.cy >>
                   = calib.principal_point

C22_Witness ==
    /\ pc = "loop"
    /\ calib.missing = "none"
    /\ calib.dist_coeffs = << 11, 12, 13, 14 >>
    /\ ~intrinsic_params.none
    /\ intrinsic_params.p2 = 14
    /\ intrinsic_params.k3 = 0

(***************************************************************************)
(* Frame identity of the pose export (checked under Spec)                  *)
(***************************************************************************)
\* C23: every record file that the pattern vehicle_sensor*.json matches
\* yields a frame whose integer id is the numeric value of the filename
\* suffix and whose image and mask paths carry that suffix and the camera
\* name; no discovered file makes the export fail on its id (failures of the
\* calibration and of the pose are set aside).
C23_EveryDiscoveredFileYieldsFrame ==
    (pc # "error" \/ err = "ValueError: invalid literal for int()") =>
        /\ Len(frames) = idx
        /\ \A k \in 1..idx :
              LET suffix == vehicle_sensor_files[k].rest
              IN  /\ frames[k].colmap_im_id = DecVal(suffix)
                  /\ frames[k].file_path = << "images", CAMERA_TYPE, suffix >>
                  /\ frames[k].mask_path
                         = << "masks", "mask", CAMERA_TYPE, suffix >>

(***************************************************************************)
(* Metadata of the combined manifest (checked under SpecCombine)           *)
(***************************************************************************)
\* the listed manifests found on disk
FoundFiles == { k \in 1..Len(input_files) : input_files[k].exists }

\* indices 0, K, 2K, ... of n frames
SampledPositions(n) == { j \in 0..(n - 1) : j % FRAME_STEP = 0 }

\* C24: whichever of the listed manifests exist, the saved manifest carries
\* the intrinsics of one of the manifests that were found, and its frames
\* are the frames at indices 0, K, 2K, ... of every manifest that was found;
\* so it does when the first listed manifest is the missing one.
C24_MetadataFromAFoundFile ==
    (cpc = "saved" /\ FoundFiles # {}) =>
        /\ output_file.written
        /\ output_file.cam \in FoundFiles
        /\ { << output_file.frames[i].cam, output_file.frames[i].pos >> :
                i \in 1..Len(output_file.frames) }
               = { << k, j >> \in FoundFiles \X (0..(FRAME_STEP_DEFAULT + 1)) :
                     j \in SampledPositions(input_files[k].n) }

(***************************************************************************)
(* Pairing of LiDAR files and poses (checked under SpecLasFair)            *)
(***************************************************************************)
\* the capture index a manifest frame carries in its file path
CaptureIndex(f) == f.file_path[3]

\* C26: the i-th LiDAR file in sorted order (i from 0) has been transformed
\* with the pose of the manifest frame of capture index i, and the loop
\* index never passes the end of the file list or of the frame list, for
\* manifests of one sensor, of several sensors and of every second capture.
C26_PairedByCaptureIndex ==
    lpc \in {"loop", "saved"} =>
        /\ li <= Len(las_files)
        /\ li <= Len(las_frames)
        /\ \A i \in 1..li : CaptureIndex(las_frames[i]) = i - 1

(***************************************************************************)
(* Subset selection (checked under SpecSelect)                             *)
(***************************************************************************)
\* the directory holds the image of camera cam for frame id
HasImage(cam, id) ==
    \E k \in 1..Len(input_dir.listing) :
        LET f == input_dir.listing[k]
        IN  /\ f.cam = cam /\ f.sep = "_" /\ f.ext = ".jpg"
            /\ DecVal(f.frame_str) = id

\* the ids for which the directory holds the images of all four rig cameras
CompleteIds ==
    { id \in { DecVal(input_dir.listing[k].frame_str) :
                 k \in 1..Len(input_dir.listing) } :
        \A c \in 1..Len(camera_names) : HasImage(camera_names[c], id) }

\* the number of frames a run may select
FramesAllowed ==
    LET every_nth == (Cardinality(CompleteIds) + nth - 1) \div nth
    IN  IF max_images.none \/ max_images.val \div 4 >= every_nth
        THEN every_nth ELSE max_images.val \div 4

\* C25: for every directory listing, step nth >= 1 and optional
\* max_images >= 0, the files selected for copying are whole frames: for
\* each selected frame id exactly one file of each of the 4 rig cameras and
\* nothing else; the selected ids are the ids at positions 0, nth, 2 nth, ...
\* of the ascending complete frames; the number of selected images is a
\* multiple of 4 that never exceeds max_images; a run that is not a dry run
\* copies exactly these files.
C25_WholeFramesOnly ==
    (spc \in {"copy", "done"} /\ input_dir.exists) =>
        /\ Len(selected_frame_ids) = FramesAllowed
        /\ \A k \in 1..Len(selected_frame_ids) :
              /\ selected_frame_ids[k] \in CompleteIds
              /\ Cardinality({ x \in CompleteIds : x < selected_frame_ids[k] })
                    = (k - 1) * nth
              /\ \A c \in 1..Len(camera_names) :
                    Cardinality({ j \in 1..Len(files_to_copy) :
                        /\ files_to_copy[j].cam = camera_names[c]
                        /\ DecVal(files_to_copy[j].frame_str)
                              = selected_frame_ids[k] }) = 1
        /\ \A j \in 1..Len(files_to_copy) :
              /\ \E k \in 1..Len(input_dir.listing) :
                    input_dir.listing[k] = files_to_copy[j]
              /\ files_to_copy[j].sep = "_" /\ files_to_copy[j].ext = ".jpg"
        /\ Len(files_to_copy) = 4 * Len(selected_frame_ids)
        /\ Len(files_to_copy) % 4 = 0
        /\ ~max_images.none => Len(files_to_copy) <= max_images.val
        /\ (spc = "done" /\ ~dry_run) =>
              output_dir = { files_to_copy[j] : j \in 1..Len(files_to_copy) }

C25_Witness ==
    /\ spc = "done"
    /\ ~dry_run
    /\ DOMAIN grouped = {0, 1, 2}
    /\ sorted_frame_ids = << 0, 2 >>
    /\ nth = 2
    /\ max_images = Limit(7)
    /\ selected_frame_ids = << 0 >>
    /\ Cardinality(output_dir) = 4

(***************************************************************************)
(* Mask sequence generation (checked under SpecMask)                       *)
(***************************************************************************)
RECURSIVE NumVal(_)
\* the number a sequence of decimal digits writes
NumVal(ds) ==
    IF Len(ds) = 0 THEN 0
    ELSE 10 * NumVal(SubSeq(ds, 1, Len(ds) - 1)) + ds[Len(ds)]

NumDigits(n) == IF n < 10 THEN 1 ELSE IF n < 100 THEN 2 ELSE 3

\* C27: for every count >= 0, when every copy succeeds the call ends
\* normally with exactly count files, the i-th named with index i zero-padded
\* to max(min_pad, number of digits of count); when a copy fails at index i
\* the call ends normally with exactly i files.
C27_ExactlyCountFiles ==
    mpc \in {"done", "raised"} =>
        /\ mpc = "done"
        /\ IF failing_copies = {}
           THEN /\ Len(created) = num_frames
                /\ \A i \in 0..(num_frames - 1) :
                      /\ NumVal(created[i + 1].index) = i
                      /\ Len(created[i + 1].index) =
                            IF min_pad > NumDigits(num_frames) THEN min_pad
                            ELSE NumDigits(num_frames)
           ELSE \A i \in failing_copies : Len(created) = i

====
